---- MODULE Spec2Model ----
(***************************************************************************)
(* Planify: the turn-taking orchestration engine (orchestrator.py), the    *)
(* session file (Session.save / Session.load) and the command line driver  *)
(* (cli.async_main) that starts, resumes, saves and interrupts a run.      *)
(*                                                                         *)
(* One behaviour follows ONE session file through several processes: a     *)
(* fresh process creates the session, later processes resume it from the   *)
(* file the earlier ones wrote.  The engine is single-threaded; its steps  *)
(* are the pieces of code between two suspension points (the provider call *)
(* and the feedback callback).                                             *)
(***************************************************************************)
EXTENDS Integers, Sequences, FiniteSets, TLC

VARIABLES
    session,      \* the Session object of the running process ("no object": None)
    cliSession,   \* TRUE iff the variable `session` of async_main is bound to it
    disk,         \* the session file: None (no file) or Some(dict)
    pc,           \* position of the process
    run,          \* configuration and arguments of the running process
    pending,      \* the suspended call: None or Some(call record)
    session0,     \* history: the session as Orchestrator.run received/created it
    invoked,      \* history: agent invocations of the running process
    firstCall,    \* history: the first agent invocation of the running process
    exitKind,     \* history: how the last process ended
    saved,        \* history: the running process wrote the session file
    runs,         \* number of processes started so far
    fnArgs,       \* pure-function specifications: the arguments
    fnResult      \* pure-function specifications: the result

vars == <<session, cliSession, disk, pc, run, pending, session0, invoked,
          firstCall, exitKind, saved, runs, fnArgs, fnResult>>

engineVars == <<session, cliSession, disk, pc, run, pending, session0, invoked,
                firstCall, exitKind, saved, runs>>

----------------------------------------------------------------------------
(* Bounds of the model *)

MaxRounds == 2       \* max_rounds is drawn from 0..MaxRounds
MaxTurns == 8        \* no agent is invoked once the conversation has MaxTurns turns
MaxRuns == 3         \* processes started in one behaviour
MaxFeedbacks == 1    \* turns of one session that receive a non-null feedback text

----------------------------------------------------------------------------
(* Python's None and optional values *)

None == <<>>
Some(x) == <<x>>
Get(o) == o[1]

----------------------------------------------------------------------------
(* Phase and SessionStatus: enum members and their string values *)

Phases == {"ARCHITECT", "CRITIC", "REBUTTAL", "INTEGRATOR"}

PhaseValue(p) ==
    CASE p = "ARCHITECT" -> "architect"
      [] p = "CRITIC" -> "critic"
      [] p = "REBUTTAL" -> "rebuttal"
      [] p = "INTEGRATOR" -> "integrator"

PhaseValues == {PhaseValue(p) : p \in Phases}

\* Phase(value): the member with that value
PhaseOf(v) == CHOOSE p \in Phases : PhaseValue(p) = v

Statuses == {"IN_PROGRESS", "AWAITING_FEEDBACK", "COMPLETED", "ABORTED"}

StatusValue(s) ==
    CASE s = "IN_PROGRESS" -> "in_progress"
      [] s = "AWAITING_FEEDBACK" -> "awaiting_feedback"
      [] s = "COMPLETED" -> "completed"
      [] s = "ABORTED" -> "aborted"

StatusValues == {StatusValue(s) : s \in Statuses}

\* SessionStatus(value)
StatusOf(v) == CHOOSE s \in Statuses : StatusValue(s) = v

----------------------------------------------------------------------------
(* Floating point addition of costs.  Python floats are modelled by a      *)
(* small binary floating point format with a 2-bit significand and         *)
(* round-half-to-even: the representable numbers are 0,1,2,3,4,6,8,12,16,  *)
(* 24,32,...  The sum of two representable numbers is rounded, so that     *)
(* addition is not associative, as for Python floats.                      *)

Ulp(x) ==
    IF x < 4 THEN 1 ELSE IF x < 8 THEN 2 ELSE IF x < 16 THEN 4
    ELSE IF x < 32 THEN 8 ELSE 16

RoundF(x) ==
    LET u == Ulp(x)
        lo == (x \div u) * u
        r == x - lo
    IN  IF 2 * r < u THEN lo
        ELSE IF 2 * r > u THEN lo + u
        ELSE IF (lo \div u) % 2 = 0 THEN lo ELSE lo + u

FAdd(a, b) == RoundF(a + b)

\* sum(costs) as Python folds it: from 0, left to right
RECURSIVE FSum(_)
FSum(costs) ==
    IF costs = <<>> THEN 0
    ELSE FAdd(FSum(SubSeq(costs, 1, Len(costs) - 1)), costs[Len(costs)])

----------------------------------------------------------------------------
(* ConversationTurn and Session, and their dict forms *)

\* ConversationTurn(phase, model, content, ..., cost_usd) at logical time now
ConversationTurn(phase, model, content, input_tokens, output_tokens, cost_usd, now) ==
    [phase |-> phase, model |-> model, content |-> content,
     input_tokens |-> input_tokens, output_tokens |-> output_tokens,
     cost_usd |-> cost_usd, human_feedback |-> None, timestamp |-> now]

\* dataclasses.asdict(turn)
Turn_to_dict(t) ==
    [phase |-> t.phase, model |-> t.model, content |-> t.content,
     input_tokens |-> t.input_tokens, output_tokens |-> t.output_tokens,
     cost_usd |-> t.cost_usd, human_feedback |-> t.human_feedback,
     timestamp |-> t.timestamp]

\* ConversationTurn(**data)
Turn_from_dict(d) ==
    [phase |-> d.phase, model |-> d.model, content |-> d.content,
     input_tokens |-> d.input_tokens, output_tokens |-> d.output_tokens,
     cost_usd |-> d.cost_usd, human_feedback |-> d.human_feedback,
     timestamp |-> d.timestamp]

Session_to_dict(s) ==
    [id |-> s.id, task |-> s.task, repo_path |-> s.repo_path,
     status |-> StatusValue(s.status),
     current_phase |-> PhaseValue(s.current_phase),
     round |-> s.round,
     conversation |-> [i \in 1..Len(s.conversation) |-> Turn_to_dict(s.conversation[i])],
     total_cost_usd |-> s.total_cost_usd,
     files_loaded |-> s.files_loaded, tokens_used |-> s.tokens_used,
     created_at |-> s.created_at, updated_at |-> s.updated_at,
     doc_impact_analysis |-> s.doc_impact_analysis]

\* a variant of from_dict that does not read total_cost_usd
Session_from_dict_zeroCost(data) ==
    [id |-> data.id, task |-> data.task, repo_path |-> data.repo_path,
     status |-> StatusOf(data.status),
     current_phase |-> PhaseOf(data.current_phase),
     round |-> data.round,
     conversation |-> [i \in 1..Len(data.conversation) |-> Turn_from_dict(data.conversation[i])],
     total_cost_usd |-> 0,
     files_loaded |-> data.files_loaded, tokens_used |-> data.tokens_used,
     created_at |-> data.created_at, updated_at |-> data.updated_at,
     doc_impact_analysis |-> IF "doc_impact_analysis" \in DOMAIN data
                             THEN data.doc_impact_analysis ELSE None]

\* a variant of from_dict that leaves current_phase at its default
Session_from_dict_defaultPhase(data) ==
    [id |-> data.id, task |-> data.task, repo_path |-> data.repo_path,
     status |-> StatusOf(data.status),
     current_phase |-> "ARCHITECT",
     round |-> data.round,
     conversation |-> [i \in 1..Len(data.conversation) |-> Turn_from_dict(data.conversation[i])],
     total_cost_usd |-> data.total_cost_usd,
     files_loaded |-> data.files_loaded, tokens_used |-> data.tokens_used,
     created_at |-> data.created_at, updated_at |-> data.updated_at,
     doc_impact_analysis |-> IF "doc_impact_analysis" \in DOMAIN data
                             THEN data.doc_impact_analysis ELSE None]

Session_from_dict(data) ==
    [id |-> data.id, task |-> data.task, repo_path |-> data.repo_path,
     status |-> StatusOf(data.status),
     current_phase |-> PhaseOf(data.current_phase),
     round |-> data.round,
     conversation |-> [i \in 1..Len(data.conversation) |-> Turn_from_dict(data.conversation[i])],
     total_cost_usd |-> data.total_cost_usd,
     files_loaded |-> data.files_loaded, tokens_used |-> data.tokens_used,
     created_at |-> data.created_at, updated_at |-> data.updated_at,
     doc_impact_analysis |-> IF "doc_impact_analysis" \in DOMAIN data
                             THEN data.doc_impact_analysis ELSE None]

\* Session.save: json.dump(self.to_dict()) into <id>.json
Session_save(s) == Some(Session_to_dict(s))

\* Session.load: from_dict(json.load(file)); the file exists
Session_load(file) == Session_from_dict(Get(file))

----------------------------------------------------------------------------
(* The exceptions of Session.load *)

\* the fields of ConversationTurn, and those without a default value
TurnFields ==
    {"phase", "model", "content", "input_tokens", "output_tokens", "cost_usd",
     "human_feedback", "timestamp"}

TurnFieldsRequired ==
    {"phase", "model", "content", "input_tokens", "output_tokens", "cost_usd"}

\* the keys that from_dict reads with data[...]
SessionKeys ==
    {"id", "task", "repo_path", "status", "current_phase", "round",
     "conversation", "total_cost_usd", "files_loaded", "tokens_used",
     "created_at", "updated_at"}

\* ConversationTurn(**data) raises TypeError for a missing or an unexpected
\* keyword
Turn_from_dict_raises(d) ==
    \/ TurnFieldsRequired \ DOMAIN d # {}
    \/ DOMAIN d \ TurnFields # {}

\* the exception that from_dict raises, evaluating its arguments in order;
\* None if it returns a session
Session_from_dict_raises(data) ==
    IF {"id", "task", "repo_path", "status"} \ DOMAIN data # {} THEN Some("KeyError")
    ELSE IF data.status \notin StatusValues THEN Some("ValueError")
    ELSE IF "current_phase" \notin DOMAIN data THEN Some("KeyError")
    ELSE IF data.current_phase \notin PhaseValues THEN Some("ValueError")
    ELSE IF {"round", "conversation"} \ DOMAIN data # {} THEN Some("KeyError")
    ELSE IF \E i \in 1..Len(data.conversation) :
                Turn_from_dict_raises(data.conversation[i]) THEN Some("TypeError")
    ELSE IF SessionKeys \ DOMAIN data # {} THEN Some("KeyError")
    ELSE None

\* the exception that Session.load raises for a file (None: no such file)
Session_load_raises(file) ==
    IF file = None THEN Some("FileNotFoundError")
    ELSE Session_from_dict_raises(Get(file))

----------------------------------------------------------------------------
(* Orchestrator: pure helpers *)

\* a variant of _get_next_phase that wraps once more at the last round
GetNextPhase_offByOne(current, current_round, max_rounds) ==
    IF current = "ARCHITECT" THEN Some("CRITIC")
    ELSE IF current = "CRITIC" THEN Some("REBUTTAL")
    ELSE IF current = "REBUTTAL" THEN Some("INTEGRATOR")
    ELSE IF current = "INTEGRATOR"
         THEN IF current_round <= max_rounds THEN Some("ARCHITECT") ELSE None
    ELSE None

\* _get_next_phase; None when planning is complete
GetNextPhase(current, current_round, max_rounds) ==
    IF current = "ARCHITECT" THEN Some("CRITIC")
    ELSE IF current = "CRITIC" THEN Some("REBUTTAL")
    ELSE IF current = "REBUTTAL" THEN Some("INTEGRATOR")
    ELSE IF current = "INTEGRATOR"
         THEN IF current_round < max_rounds THEN Some("ARCHITECT") ELSE None
    ELSE None

\* a variant of the role choice that hands every phase value to _get_agent
AgentRole_phaseValue(phase) == PhaseValue(phase)

\* the role handed to _get_agent for a phase
AgentRole(phase) == IF phase = "REBUTTAL" THEN "architect" ELSE PhaseValue(phase)

\* a variant of the history list that carries the feedback of each turn
History_withFeedback(conversation) ==
    [i \in 1..Len(conversation) |->
        [content |-> conversation[i].content, phase |-> conversation[i].phase,
         model |-> conversation[i].model,
         input_tokens |-> conversation[i].input_tokens,
         output_tokens |-> conversation[i].output_tokens,
         cost_usd |-> conversation[i].cost_usd,
         human_feedback |-> conversation[i].human_feedback]]

\* the history list built for the agent: AgentResponse has no human_feedback
History(conversation) ==
    [i \in 1..Len(conversation) |->
        [content |-> conversation[i].content, phase |-> conversation[i].phase,
         model |-> conversation[i].model,
         input_tokens |-> conversation[i].input_tokens,
         output_tokens |-> conversation[i].output_tokens,
         cost_usd |-> conversation[i].cost_usd]]

\* content of the last turn with the given phase value, searching backwards
RECURSIVE LastContent(_, _)
LastContent(conversation, phaseValue) ==
    IF conversation = <<>> THEN None
    ELSE IF conversation[Len(conversation)].phase = phaseValue
         THEN Some(conversation[Len(conversation)].content)
    ELSE LastContent(SubSeq(conversation, 1, Len(conversation) - 1), phaseValue)

\* a variant of _extract_final_plan that looks for an architect turn first
ExtractFinalPlan_architectFirst(s) ==
    IF LastContent(s.conversation, "architect") # None
        THEN Get(LastContent(s.conversation, "architect"))
    ELSE IF LastContent(s.conversation, "integrator") # None
        THEN Get(LastContent(s.conversation, "integrator"))
    ELSE IF s.conversation # <<>>
        THEN s.conversation[Len(s.conversation)].content
    ELSE ""

\* _extract_final_plan
ExtractFinalPlan(s) ==
    IF LastContent(s.conversation, "integrator") # None
        THEN Get(LastContent(s.conversation, "integrator"))
    ELSE IF LastContent(s.conversation, "architect") # None
        THEN Get(LastContent(s.conversation, "architect"))
    ELSE IF s.conversation # <<>>
        THEN s.conversation[Len(s.conversation)].content
    ELSE ""

\* TaskExtractor._get_final_plan: the same search without the last fallback
GetFinalPlan(s) ==
    IF LastContent(s.conversation, "integrator") # None
        THEN Get(LastContent(s.conversation, "integrator"))
    ELSE IF LastContent(s.conversation, "architect") # None
        THEN Get(LastContent(s.conversation, "architect"))
    ELSE ""

\* a variant of _create_session that starts the cycle at the critic
CreateSession_startAtCritic(task, repo_path, context) ==
    [id |-> "s1", task |-> task, repo_path |-> repo_path,
     status |-> "IN_PROGRESS", current_phase |-> "CRITIC", round |-> 1,
     conversation |-> <<>>, total_cost_usd |-> 0,
     files_loaded |-> context.files, tokens_used |-> context.total_tokens,
     created_at |-> 0, updated_at |-> 0, doc_impact_analysis |-> None]

\* a variant of _create_session that numbers the first round 0
CreateSession_roundZero(task, repo_path, context) ==
    [id |-> "s1", task |-> task, repo_path |-> repo_path,
     status |-> "IN_PROGRESS", current_phase |-> "ARCHITECT", round |-> 0,
     conversation |-> <<>>, total_cost_usd |-> 0,
     files_loaded |-> context.files, tokens_used |-> context.total_tokens,
     created_at |-> 0, updated_at |-> 0, doc_impact_analysis |-> None]

\* _create_session
CreateSession(task, repo_path, context) ==
    [id |-> "s1", task |-> task, repo_path |-> repo_path,
     status |-> "IN_PROGRESS", current_phase |-> "ARCHITECT", round |-> 1,
     conversation |-> <<>>, total_cost_usd |-> 0,
     files_loaded |-> context.files, tokens_used |-> context.total_tokens,
     created_at |-> 0, updated_at |-> 0, doc_impact_analysis |-> None]

\* analyze_plan_impact(final_plan, doc_arch, task).to_dict(): the analysis is a
\* function of the plan text and the task; the record keeps both arguments
AnalyzePlanImpact(final_plan, task) == [plan |-> final_plan, task |-> task]

----------------------------------------------------------------------------
(* Inputs of a process: configuration, arguments, provider responses *)

RepoPath == "/repo"

\* LoadedContext summaries produced by ContextLoader.load
Contexts == {[files |-> <<"README.md">>, total_tokens |-> 1]}

\* limits.max_total_cost: a limit that a run reaches, and one it never reaches
MaxCostChoices == {4, 100}

\* cost_usd of one provider response: each role has its own provider and
\* model, hence its own price
CostsOf(role) ==
    IF role = "architect" THEN {3} ELSE IF role = "critic" THEN {1} ELSE {2}

\* content of one provider response
Contents == {"plan"}

\* texts returned by the feedback callback
FeedbackTexts == {"fb"}

\* the responses the provider of a role can give
Responses(role) ==
    [content : Contents, model : {role}, input_tokens : {1}, output_tokens : {1},
     cost_usd : CostsOf(role)]

ConfigsOf(resumed, tasks) ==
    [resumed : {resumed}, task : tasks, max_rounds : 0..MaxRounds,
     max_total_cost : MaxCostChoices, feedback_callback : BOOLEAN,
     context : Contexts, routes : BOOLEAN]

\* planify TASK: a fresh session
FreshConfigs == ConfigsOf(FALSE, {"T"})

\* planify --resume FILE: the task argument is empty
ResumeConfigs == ConfigsOf(TRUE, {""})

Cfg == Get(run)
S == Get(session)

\* number of turns that carry a feedback text
RECURSIVE Feedbacks(_)
Feedbacks(conversation) ==
    IF conversation = <<>> THEN 0
    ELSE Feedbacks(SubSeq(conversation, 1, Len(conversation) - 1))
         + (IF conversation[Len(conversation)].human_feedback # None THEN 1 ELSE 0)

\* a variant of the loop condition that allows one round too many
LoopCondition_offByOne(s) == s.round <= Cfg.max_rounds + 1

\* the condition of the while loop of _run_loop
LoopCondition(s) == s.round <= Cfg.max_rounds

\* a variant of the cost guard that lets a cost equal to the limit pass
CostLimitReached_strict(s) == s.total_cost_usd > Cfg.max_total_cost

\* the cost guard at the head of an iteration
CostLimitReached(s) == s.total_cost_usd >= Cfg.max_total_cost

\* a variant of the resume branch that keeps the stored context summary
ResumeSession_keepSummary(s, context) == s

\* a variant of the resume branch that starts the planning cycle again
ResumeSession_restart(s, context) ==
    [s EXCEPT !.files_loaded = context.files, !.tokens_used = context.total_tokens,
              !.current_phase = "ARCHITECT"]

\* run(session=s): the context summary of a resumed session is overwritten
ResumeSession(s, context) ==
    [s EXCEPT !.files_loaded = context.files, !.tokens_used = context.total_tokens]

----------------------------------------------------------------------------
(* The ways a process ends (Orchestrator.run's tail and async_main's tail) *)

\* a variant of run's tail that analyses the plan whatever the status is
RunReturns_anyStatus(s) ==
    LET s1 == IF Cfg.routes
              THEN [s EXCEPT !.doc_impact_analysis =
                        Some(AnalyzePlanImpact(ExtractFinalPlan(s), Cfg.task))]
              ELSE s
    IN  /\ session' = Some(s1)
        /\ cliSession' = TRUE
        /\ disk' = Session_save(s1)
        /\ saved' = TRUE
        /\ pc' = "exited"
        /\ exitKind' = "returned"

\* _run_loop returned: run's doc-impact step, then async_main saves the
\* session that run returned
RunReturns(s) ==
    LET s1 == IF s.status = "COMPLETED" /\ Cfg.routes
              THEN [s EXCEPT !.doc_impact_analysis =
                        Some(AnalyzePlanImpact(ExtractFinalPlan(s), Cfg.task))]
              ELSE s
    IN  /\ session' = Some(s1)
        /\ cliSession' = TRUE
        /\ disk' = Session_save(s1)
        /\ saved' = TRUE
        /\ pc' = "exited"
        /\ exitKind' = "returned"

\* a ProviderError leaves _run_loop: run's except clause sets ABORTED and
\* re-raises; async_main's except clause saves `if session:`
RaiseProviderError(s, kind) ==
    LET s1 == [s EXCEPT !.status = "ABORTED"]
    IN  /\ session' = Some(s1)
        /\ IF cliSession
           THEN disk' = Session_save(s1) /\ saved' = TRUE
           ELSE UNCHANGED <<disk, saved>>
        /\ pc' = "exited"
        /\ exitKind' = kind
        /\ UNCHANGED cliSession

\* a variant of Advance that counts a round for every phase change
Advance_roundEveryPhase(s) ==
    LET next_phase == GetNextPhase(s.current_phase, s.round, Cfg.max_rounds)
    IN  IF next_phase = None
        THEN RunReturns([s EXCEPT !.status = "COMPLETED"])
        ELSE /\ session' = Some([s EXCEPT !.round = @ + 1,
                                          !.current_phase = Get(next_phase)])
             /\ pc' = "loop"
             /\ UNCHANGED <<cliSession, disk, saved, exitKind>>

\* a variant of Advance that counts one more round when planning completes
Advance_countFinalRound(s) ==
    LET next_phase == GetNextPhase(s.current_phase, s.round, Cfg.max_rounds)
    IN  IF next_phase = None
        THEN RunReturns([s EXCEPT !.status = "COMPLETED", !.round = @ + 1])
        ELSE /\ session' = Some([s EXCEPT
                    !.round = IF Get(next_phase) = "ARCHITECT"
                                 /\ s.current_phase = "INTEGRATOR"
                              THEN @ + 1 ELSE @,
                    !.current_phase = Get(next_phase)])
             /\ pc' = "loop"
             /\ UNCHANGED <<cliSession, disk, saved, exitKind>>

\* a variant of Advance that starts the cycle again without counting the round
Advance_sameRound(s) ==
    LET next_phase == GetNextPhase(s.current_phase, s.round, Cfg.max_rounds)
    IN  IF next_phase = None
        THEN RunReturns([s EXCEPT !.status = "COMPLETED"])
        ELSE /\ session' = Some([s EXCEPT !.current_phase = Get(next_phase)])
             /\ pc' = "loop"
             /\ UNCHANGED <<cliSession, disk, saved, exitKind>>

\* "Advance to next phase" at the end of a loop iteration
Advance(s) ==
    LET next_phase == GetNextPhase(s.current_phase, s.round, Cfg.max_rounds)
    IN  IF next_phase = None
        THEN RunReturns([s EXCEPT !.status = "COMPLETED"])
        ELSE /\ session' = Some([s EXCEPT
                    !.round = IF Get(next_phase) = "ARCHITECT"
                                 /\ s.current_phase = "INTEGRATOR"
                              THEN @ + 1 ELSE @,
                    !.current_phase = Get(next_phase)])
             /\ pc' = "loop"
             /\ UNCHANGED <<cliSession, disk, saved, exitKind>>

----------------------------------------------------------------------------
(* Actions *)

\* async_main without --resume, up to the first test of the while loop
StartFresh(cfg) ==
    /\ pc \in {"start", "exited"}
    /\ runs < MaxRuns
    /\ disk = None
    /\ LET s == CreateSession(cfg.task, RepoPath, cfg.context)
       IN  session' = Some(s) /\ session0' = Some(s)
    /\ cliSession' = FALSE
    /\ run' = Some(cfg)
    /\ pc' = "loop"
    /\ pending' = None
    /\ invoked' = 0
    /\ firstCall' = None
    /\ exitKind' = "none"
    /\ saved' = FALSE
    /\ runs' = runs + 1
    /\ UNCHANGED disk

\* async_main with --resume: Session.load, then run() overwrites the
\* context summary of the loaded session
StartResume(cfg) ==
    /\ pc \in {"start", "exited"}
    /\ runs < MaxRuns
    /\ disk # None
    \* the configuration file and the repository's documentation are the
    \* same for all processes that work on one session file
    /\ cfg.max_total_cost = Cfg.max_total_cost
    /\ cfg.routes = Cfg.routes
    /\ LET s == Session_load(disk)
       IN  /\ session' = Some(ResumeSession(s, cfg.context))
           /\ session0' = Some(s)
    /\ cliSession' = TRUE
    /\ run' = Some(cfg)
    /\ pc' = "loop"
    /\ pending' = None
    /\ invoked' = 0
    /\ firstCall' = None
    /\ exitKind' = "none"
    /\ saved' = FALSE
    /\ runs' = runs + 1
    /\ UNCHANGED disk

\* while session.round <= max_rounds: false
LoopExit ==
    /\ pc = "loop"
    /\ ~LoopCondition(S)
    /\ RunReturns(S)
    /\ UNCHANGED <<run, pending, session0, invoked, firstCall, runs>>

\* the cost guard fires: status ABORTED, ProviderError("Cost limit exceeded")
CostAbort ==
    /\ pc = "loop"
    /\ LoopCondition(S)
    /\ CostLimitReached(S)
    /\ RaiseProviderError(S, "cost_limit")
    /\ UNCHANGED <<run, pending, session0, invoked, firstCall, runs>>

\* a variant of InvokeAgent that issues the next call while the feedback
\* callback of the last turn is still pending
InvokeAgent_duringFeedback ==
    /\ pc \in {"loop", "feedback"}
    /\ LoopCondition(S)
    /\ ~CostLimitReached(S)
    /\ Len(S.conversation) < MaxTurns
    /\ LET c == [kind |-> "agent", role |-> AgentRole(S.current_phase),
                 phase |-> S.current_phase, round |-> S.round, task |-> S.task,
                 history |-> History(S.conversation)]
       IN  /\ pending' = Some(c)
           /\ firstCall' = IF invoked = 0 THEN Some(c) ELSE firstCall
    /\ invoked' = invoked + 1
    /\ pc' = "agent"
    /\ UNCHANGED <<session, cliSession, disk, run, session0, exitKind, saved, runs>>

\* agent.run(session.task, context, history) is issued and suspends
InvokeAgent ==
    /\ pc = "loop"
    /\ LoopCondition(S)
    /\ ~CostLimitReached(S)
    /\ Len(S.conversation) < MaxTurns
    /\ LET c == [kind |-> "agent", role |-> AgentRole(S.current_phase),
                 phase |-> S.current_phase, round |-> S.round, task |-> S.task,
                 history |-> History(S.conversation)]
       IN  /\ pending' = Some(c)
           /\ firstCall' = IF invoked = 0 THEN Some(c) ELSE firstCall
    /\ invoked' = invoked + 1
    /\ pc' = "agent"
    /\ UNCHANGED <<session, cliSession, disk, run, session0, exitKind, saved, runs>>

\* a variant of AgentResponds that waits for feedback whether or not a
\* callback was supplied
AgentResponds_alwaysAsks(response) ==
    /\ pc = "agent"
    /\ response \in Responses(Get(pending).role)
    /\ LET turn == ConversationTurn(PhaseValue(S.current_phase), response.model,
                        response.content, response.input_tokens,
                        response.output_tokens, response.cost_usd,
                        Len(S.conversation) + 1)
           s1 == [S EXCEPT !.conversation = Append(@, turn),
                           !.total_cost_usd = FAdd(@, response.cost_usd),
                           !.updated_at = Len(S.conversation) + 1]
       IN  /\ session' = Some([s1 EXCEPT !.status = "AWAITING_FEEDBACK"])
           /\ pc' = "feedback"
           /\ pending' = Some([kind |-> "feedback", phase |-> turn.phase])
           /\ UNCHANGED <<cliSession, disk, saved, exitKind>>
    /\ UNCHANGED <<run, session0, invoked, firstCall, runs>>

\* the provider answers: record the turn, then either wait for feedback or advance
AgentResponds(response) ==
    /\ pc = "agent"
    /\ response \in Responses(Get(pending).role)
    /\ LET turn == ConversationTurn(PhaseValue(S.current_phase), response.model,
                        response.content, response.input_tokens,
                        response.output_tokens, response.cost_usd,
                        Len(S.conversation) + 1)
           s1 == [S EXCEPT !.conversation = Append(@, turn),
                           !.total_cost_usd = FAdd(@, response.cost_usd),
                           !.updated_at = Len(S.conversation) + 1]
       IN  IF Cfg.feedback_callback
           THEN /\ session' = Some([s1 EXCEPT !.status = "AWAITING_FEEDBACK"])
                /\ pc' = "feedback"
                /\ pending' = Some([kind |-> "feedback", phase |-> turn.phase])
                /\ UNCHANGED <<cliSession, disk, saved, exitKind>>
           ELSE /\ Advance(s1)
                /\ pending' = None
    /\ UNCHANGED <<run, session0, invoked, firstCall, runs>>

\* a variant of AgentFails that starts the iteration again after a retryable error
AgentFails_retry(retryable) ==
    /\ pc = "agent"
    /\ IF retryable
       THEN pc' = "loop" /\ UNCHANGED <<session, cliSession, disk, saved, exitKind>>
       ELSE RaiseProviderError(S, "provider_error")
    /\ pending' = None
    /\ UNCHANGED <<run, session0, invoked, firstCall, runs>>

\* the provider call raises ProviderError (retryable or not)
AgentFails(retryable) ==
    /\ pc = "agent"
    /\ RaiseProviderError(S, "provider_error")
    /\ pending' = None
    /\ UNCHANGED <<run, session0, invoked, firstCall, runs>>

\* a variant of FeedbackReturns that attaches the text to the first turn
FeedbackReturns_firstTurn(feedback) ==
    /\ pc = "feedback"
    /\ feedback # None => Feedbacks(S.conversation) < MaxFeedbacks
    /\ LET s1 == [S EXCEPT !.conversation[1].human_feedback = feedback,
                           !.status = "IN_PROGRESS"]
       IN  Advance(s1)
    /\ pending' = None
    /\ UNCHANGED <<run, session0, invoked, firstCall, runs>>

\* the feedback callback returns a text or None
FeedbackReturns(feedback) ==
    /\ pc = "feedback"
    /\ feedback # None => Feedbacks(S.conversation) < MaxFeedbacks
    /\ LET n == Len(S.conversation)
           s1 == [S EXCEPT !.conversation[n].human_feedback = feedback,
                           !.status = "IN_PROGRESS"]
       IN  Advance(s1)
    /\ pending' = None
    /\ UNCHANGED <<run, session0, invoked, firstCall, runs>>

\* KeyboardInterrupt while a provider call or a feedback wait is pending:
\* async_main's except clause saves `if session:`
Interrupt ==
    /\ pc \in {"agent", "feedback"}
    /\ IF cliSession
       THEN disk' = Session_save(S) /\ saved' = TRUE
       ELSE UNCHANGED <<disk, saved>>
    /\ pc' = "exited"
    /\ exitKind' = "interrupt"
    /\ pending' = None
    /\ UNCHANGED <<session, cliSession, run, session0, invoked, firstCall, runs>>

\* no process has started yet and there is no session file
EngineIdle ==
    /\ session = None
    /\ cliSession = FALSE
    /\ disk = None
    /\ pc = "start"
    /\ run = None
    /\ pending = None
    /\ session0 = None
    /\ invoked = 0
    /\ firstCall = None
    /\ exitKind = "none"
    /\ saved = FALSE
    /\ runs = 0

Init ==
    /\ EngineIdle
    /\ fnArgs = None
    /\ fnResult = None

\* one step of a process whose limits.max_rounds is at least minRounds
EngineNext(minRounds) ==
    \/ \E cfg \in {c \in FreshConfigs : c.max_rounds >= minRounds} :
          StartFresh(cfg) /\ UNCHANGED <<fnArgs, fnResult>>
    \/ \E cfg \in {c \in ResumeConfigs : c.max_rounds >= minRounds} :
          StartResume(cfg) /\ UNCHANGED <<fnArgs, fnResult>>
    \/ LoopExit /\ UNCHANGED <<fnArgs, fnResult>>
    \/ CostAbort /\ UNCHANGED <<fnArgs, fnResult>>
    \/ InvokeAgent /\ UNCHANGED <<fnArgs, fnResult>>
    \/ \E response \in UNION {Responses(r) : r \in {"architect", "critic", "integrator"}} :
          AgentResponds(response) /\ UNCHANGED <<fnArgs, fnResult>>
    \/ \E retryable \in BOOLEAN : AgentFails(retryable) /\ UNCHANGED <<fnArgs, fnResult>>
    \/ \E feedback \in {None} \cup {Some(t) : t \in FeedbackTexts} :
          FeedbackReturns(feedback) /\ UNCHANGED <<fnArgs, fnResult>>
    \/ Interrupt /\ UNCHANGED <<fnArgs, fnResult>>

\* limits.max_rounds is not validated: any value from 0 on
Next == EngineNext(0)

Spec == Init /\ [][Next]_vars

\* the same processes under configurations that keep to the documented
\* range of limits.max_rounds (at least 1)
NextConfigured == EngineNext(1)

SpecConfigured == Init /\ [][NextConfigured]_vars

----------------------------------------------------------------------------
(* Session.save followed by Session.load, on arbitrary sessions *)

RoundTripMaxTurns == 2    \* turns of a session given to save

TurnInputs ==
    [phase : {"architect", "integrator"}, model : {"m"}, content : {"plan"},
     input_tokens : {1}, output_tokens : {1}, cost_usd : {0, 3},
     human_feedback : {None, Some("fb")}, timestamp : {0}]

ConversationInputs ==
    UNION {[1..n -> TurnInputs] : n \in 0..RoundTripMaxTurns}

SessionInputs ==
    [id : {"s1"}, task : {"T"}, repo_path : {RepoPath},
     status : Statuses, current_phase : Phases, round : 1..2,
     conversation : ConversationInputs, total_cost_usd : {0, 3},
     files_loaded : {<<"README.md">>}, tokens_used : {1},
     created_at : {0}, updated_at : {1},
     doc_impact_analysis : {None, Some(AnalyzePlanImpact("plan", "T"))}]

InitRoundTrip ==
    /\ EngineIdle
    /\ fnArgs \in {Some(s) : s \in SessionInputs}
    /\ fnResult = None

\* Session.load(s.save(dir))
RoundTrip ==
    /\ fnResult = None
    /\ fnResult' = Some(Session_load(Session_save(Get(fnArgs))))
    /\ UNCHANGED <<fnArgs, engineVars>>

NextRoundTrip == RoundTrip

SpecRoundTrip == InitRoundTrip /\ [][NextRoundTrip]_vars

----------------------------------------------------------------------------
(* _get_next_phase on arbitrary arguments *)

NextPhaseInputs ==
    [current : Phases, current_round : -1..(MaxRounds + 1),
     max_rounds : -1..(MaxRounds + 1)]

InitNextPhase ==
    /\ EngineIdle
    /\ fnArgs \in {Some(a) : a \in NextPhaseInputs}
    /\ fnResult = None

\* self._get_next_phase(current, current_round, max_rounds)
CallGetNextPhase ==
    /\ fnResult = None
    /\ fnResult' = Some(GetNextPhase(Get(fnArgs).current, Get(fnArgs).current_round,
                                     Get(fnArgs).max_rounds))
    /\ UNCHANGED <<fnArgs, engineVars>>

NextNextPhase == CallGetNextPhase

SpecNextPhase == InitNextPhase /\ [][NextNextPhase]_vars

----------------------------------------------------------------------------
(* _extract_final_plan on arbitrary conversations *)

FinalPlanMaxTurns == 3    \* turns of a conversation given to _extract_final_plan

FinalPlanTurns ==
    [phase : PhaseValues, model : {"m"}, content : {"p1", "p2"},
     input_tokens : {1}, output_tokens : {1}, cost_usd : {1},
     human_feedback : {None}, timestamp : {0}]

FinalPlanInputs ==
    {[CreateSession("T", RepoPath, [files |-> <<>>, total_tokens |-> 0])
        EXCEPT !.conversation = c] :
       c \in UNION {[1..n -> FinalPlanTurns] : n \in 0..FinalPlanMaxTurns}}

InitFinalPlan ==
    /\ EngineIdle
    /\ fnArgs \in {Some(s) : s \in FinalPlanInputs}
    /\ fnResult = None

\* self._extract_final_plan(session)
CallExtractFinalPlan ==
    /\ fnResult = None
    /\ fnResult' = Some(ExtractFinalPlan(Get(fnArgs)))
    /\ UNCHANGED <<fnArgs, engineVars>>

NextFinalPlan == CallExtractFinalPlan

SpecFinalPlan == InitFinalPlan /\ [][NextFinalPlan]_vars

----------------------------------------------------------------------------
(* planify --resume FILE on arbitrary files, well-formed or not *)

\* a dict without one of its keys
Without(d, key) == [k \in DOMAIN d \ {key} |-> d[k]]

\* sessions as an earlier process may have saved them
ResumeFileSessions ==
    {[CreateSession("T", RepoPath, [files |-> <<"README.md">>, total_tokens |-> 1])
        EXCEPT !.status = st, !.current_phase = ph, !.conversation = c] :
       st \in Statuses, ph \in {"ARCHITECT", "REBUTTAL"},
       c \in {<<>>, <<ConversationTurn("architect", "architect", "plan", 1, 1, 3, 1)>>}}

\* the files: none, a saved session, a saved session that lost one key, one
\* whose status or phase tag is no value of the enum, one whose turn lost a field
ResumeFiles ==
    LET saved_dicts == {Session_to_dict(s) : s \in ResumeFileSessions}
    IN  {None}
        \cup {Some(d) : d \in saved_dicts}
        \cup {Some(Without(d, k)) :
                d \in saved_dicts, k \in SessionKeys \cup {"doc_impact_analysis"}}
        \cup {Some([d EXCEPT !.status = "done"]) : d \in saved_dicts}
        \cup {Some([d EXCEPT !.current_phase = "review"]) : d \in saved_dicts}
        \cup {Some([d EXCEPT !.conversation[1] = Without(@, k)]) :
                d \in {x \in saved_dicts : x.conversation # <<>>},
                k \in TurnFieldsRequired}

InitResumeFile ==
    /\ EngineIdle
    /\ fnArgs \in ResumeFiles
    /\ fnResult = None

\* a variant of the resume path that starts a fresh session when the file
\* cannot be loaded
ResumeFromFile_fallbackFresh(cfg) ==
    /\ pc = "start"
    /\ fnResult = None
    /\ fnResult' = Some(Session_load_raises(fnArgs))
    /\ LET s == IF Session_load_raises(fnArgs) # None
                THEN CreateSession(cfg.task, RepoPath, cfg.context)
                ELSE Session_load(fnArgs)
       IN  /\ session' = Some(ResumeSession(s, cfg.context))
           /\ session0' = Some(s)
    /\ cliSession' = TRUE
    /\ run' = Some(cfg)
    /\ pc' = "loop"
    /\ runs' = runs + 1
    /\ UNCHANGED <<disk, pending, invoked, firstCall, exitKind, saved, fnArgs>>

\* async_main with --resume FILE, up to the first test of the while loop:
\* an exception of Session.load is reported and the process returns 1
ResumeFromFile(cfg) ==
    /\ pc = "start"
    /\ fnResult = None
    /\ fnResult' = Some(Session_load_raises(fnArgs))
    /\ IF Session_load_raises(fnArgs) # None
       THEN /\ pc' = "exited"
            /\ exitKind' = "load_failed"
            /\ UNCHANGED <<session, session0, cliSession, run>>
       ELSE /\ LET s == Session_load(fnArgs)
               IN  /\ session' = Some(ResumeSession(s, cfg.context))
                   /\ session0' = Some(s)
            /\ cliSession' = TRUE
            /\ run' = Some(cfg)
            /\ pc' = "loop"
            /\ UNCHANGED exitKind
    /\ runs' = runs + 1
    /\ UNCHANGED <<disk, pending, invoked, firstCall, saved, fnArgs>>

NextResumeFile == \E cfg \in ResumeConfigs : ResumeFromFile(cfg)

SpecResumeFile == InitResumeFile /\ [][NextResumeFile]_vars

-----------------------------------------------------------------------------
(* Orchestrator.run on an existing session, up to the first test of the loop *)

\* the task and repo_path arguments of run
TaskArguments == {"", "T", "other"}
RepoArguments == {RepoPath, "/elsewhere"}

\* loader.load(repo_path), reduced to the summary that the session keeps
LoadContext(repo_path) ==
    IF repo_path = RepoPath
    THEN [files |-> <<"README.md">>, total_tokens |-> 1]
    ELSE [files |-> <<"CLAUDE.md", "main.py">>, total_tokens |-> 2]

\* sessions as an earlier process may have saved them
ResumeArgSessions ==
    {[s EXCEPT !.round = r, !.total_cost_usd = IF s.conversation = <<>> THEN 0 ELSE 3,
               !.doc_impact_analysis = a] :
       s \in ResumeFileSessions, r \in 1..(MaxRounds + 1),
       a \in {None, Some(AnalyzePlanImpact("plan", "T"))}}

ResumeArgInputs ==
    [session : ResumeArgSessions, task : TaskArguments, repo_path : RepoArguments]

InitResumeArgs ==
    /\ EngineIdle
    /\ fnArgs \in {Some(a) : a \in ResumeArgInputs}
    /\ fnResult = None

\* run(task, repo_path, feedback_callback, session): load the context, take
\* the resume branch
CallRunWithSession ==
    /\ fnResult = None
    /\ fnResult' = Some(ResumeSession(Get(fnArgs).session,
                                      LoadContext(Get(fnArgs).repo_path)))
    /\ UNCHANGED <<fnArgs, engineVars>>

NextResumeArgs == CallRunWithSession

SpecResumeArgs == InitResumeArgs /\ [][NextResumeArgs]_vars

-----------------------------------------------------------------------------
(* Texts, and the case-insensitive substring test *)

\* A text is a sequence of words.  str.lower() of a word.
Lower(w) ==
    CASE w = "API" -> "api"
      [] w = "Routes" -> "routes"
      [] w = "Backend" -> "backend"
      [] w = "Caching" -> "caching"
      [] w = "UI" -> "ui"
      [] w = "Button.tsx" -> "button.tsx"
      [] w = "If" -> "if"
      [] w = "When" -> "when"
      [] w = "Update..." -> "update..."
      [] w = "Legacy---old" -> "legacy---old"
      [] w = "^api/CLAUDE.md^" -> "^api/claude.md^"
      [] w = "docs/CLAUDE.md" -> "docs/claude.md"
      [] w = "Rules" -> "rules"
      [] w = "Testing" -> "testing"
      [] w = "Patterns" -> "patterns"
      [] w = "Overview" -> "overview"
      [] w = "Use" -> "use"
      [] w = "Validate" -> "validate"
      [] w = "Some" -> "some"
      [] OTHER -> w

\* The keywords, categories and warning terms that are substrings of a
\* lower-case word.
Substrings(w) ==
    CASE w = "fastapi" -> {"fastapi", "api"}
      [] w = "routes" -> {"routes", "route"}
      [] w = "memcached" -> {"memcached", "memcache", "cache"}
      [] w = "documentation" -> {"documentation", "document"}
      [] w = "button.tsx" -> {"button", "tsx"}
      [] w = "latest" -> {"latest", "test"}
      [] w = "environment" -> {"environment", "env"}
      [] w = "variable" -> {"variable", "aria"}
      [] w = ".env.example" -> {".env.example", "env", "example"}
      [] w = "changing..." -> {"changing...", "changing"}
      [] w = "update..." -> {"update...", "update"}
      [] w = "legacy---old" -> {"legacy---old", "legacy", "old", "---"}
      [] w = "^api/claude.md^" -> {"^api/claude.md^", "api"}
      [] w = "docs/claude.md" -> {"docs/claude.md", "docs"}
      [] OTHER -> {w}

TextLower(text) == [i \in DOMAIN text |-> Lower(text[i])]

\* needle in text_lower
In(needle, text_lower) ==
    \E i \in DOMAIN text_lower : needle \in Substrings(text_lower[i])

\* re.findall(r'\b[a-z]{3,}\b', w) on one lower-case word
Words3(w) ==
    CASE w = "ui" -> <<>>
      [] w = "button.tsx" -> <<"button", "tsx">>
      [] w = ".env.example" -> <<"env", "example">>
      [] w = "legacy---old" -> <<"legacy", "old">>
      [] OTHER -> <<w>>

-----------------------------------------------------------------------------
(* doc_parser: DocRoute and the keywords of an area *)

AREA_KEYWORDS ==
    << [category |-> "frontend",
        keywords |-> <<"component", "react", "tsx", "jsx", "css", "style",
                       "ui", "page", "route", "hook">>],
       [category |-> "component",
        keywords |-> <<"component", "react", "tsx", "jsx", "props", "state",
                       "hook", "render">>],
       [category |-> "e2e",
        keywords |-> <<"test", "playwright", "e2e", "end-to-end", "spec",
                       "fixture">>],
       [category |-> "a11y",
        keywords |-> <<"accessibility", "a11y", "aria", "screen reader",
                       "wcag", "contrast">>],
       [category |-> "backend",
        keywords |-> <<"api", "endpoint", "route", "fastapi", "python",
                       "server", "handler">>],
       [category |-> "api",
        keywords |-> <<"endpoint", "route", "request", "response", "http",
                       "rest", "json">>],
       [category |-> "caching",
        keywords |-> <<"cache", "ttl", "redis", "memcache", "expir">>],
       [category |-> "provider",
        keywords |-> <<"provider", "service", "integration", "external",
                       "client">>],
       [category |-> "design",
        keywords |-> <<"color", "theme", "style", "token", "typography",
                       "spacing", "ui">>],
       [category |-> "token",
        keywords |-> <<"color", "font", "spacing", "size", "variable", "css">>],
       [category |-> "contrast",
        keywords |-> <<"contrast", "wcag", "accessibility", "readable">>],
       [category |-> "safety",
        keywords |-> <<"guardrail", "block", "filter", "policy", "security",
                       "sanitize">>],
       [category |-> "security",
        keywords |-> <<"auth", "permission", "token", "secret", "encrypt",
                       "sanitize">>],
       [category |-> "config",
        keywords |-> <<"config", "environment", "env", "setting", "option">>],
       [category |-> "infra",
        keywords |-> <<"docker", "deploy", "ci", "cd", "pipeline",
                       "kubernetes">>] >>

RECURSIVE CategoryKeywords(_, _)
CategoryKeywords(i, area_lower) ==
    IF i > Len(AREA_KEYWORDS) THEN <<>>
    ELSE (IF In(AREA_KEYWORDS[i].category, area_lower)
          THEN AREA_KEYWORDS[i].keywords ELSE <<>>)
         \o CategoryKeywords(i + 1, area_lower)

RECURSIVE AreaWords(_)
AreaWords(area_lower) ==
    IF area_lower = <<>> THEN <<>>
    ELSE Words3(Head(area_lower)) \o AreaWords(Tail(area_lower))

RECURSIVE Deduplicate(_)
Deduplicate(keywords) ==
    IF keywords = <<>> THEN <<>>
    ELSE LET front == SubSeq(keywords, 1, Len(keywords) - 1)
             kw == keywords[Len(keywords)]
         IN IF \E i \in DOMAIN front : front[i] = kw
            THEN Deduplicate(front)
            ELSE Append(Deduplicate(front), kw)

ExtractKeywordsForArea(area) ==
    LET area_lower == TextLower(area)
    IN Deduplicate(CategoryKeywords(1, area_lower) \o AreaWords(area_lower))

DocRoute(area, doc_path) ==
    [area |-> area, doc_path |-> doc_path,
     keywords |-> ExtractKeywordsForArea(area)]

DocRoute_matches_perOccurrence(route, text) ==
    LET text_lower == TextLower(text)
    IN Cardinality({p \in (DOMAIN route.keywords) \X (DOMAIN text_lower) :
                       Lower(route.keywords[p[1]]) \in Substrings(text_lower[p[2]])})

DocRoute_matches(route, text) ==
    LET text_lower == TextLower(text)
    IN Cardinality({k \in DOMAIN route.keywords :
                       In(Lower(route.keywords[k]), text_lower)})

-----------------------------------------------------------------------------
(* doc_impact: analyze_plan_impact and _add_warnings *)

\* The keywords of the route that occur in the combined text, in keyword order.
MatchedKeywords(route, combined_text) ==
    SelectSeq(route.keywords, LAMBDA kw : In(Lower(kw), combined_text))

PriorityFor_above(score) ==
    IF score > 4 THEN "REQUIRED"
    ELSE IF score > 2 THEN "RECOMMENDED"
    ELSE "OPTIONAL"

PriorityFor(score) ==
    IF score >= 4 THEN "REQUIRED"
    ELSE IF score >= 2 THEN "RECOMMENDED"
    ELSE "OPTIONAL"

priority_order(priority) ==
    CASE priority = "REQUIRED" -> 0
      [] priority = "RECOMMENDED" -> 1
      [] priority = "OPTIONAL" -> 2

\* a variant of the impact record whose score is the number of keywords shown
MakeImpact_cappedScore(route, matched_keywords) ==
    [doc_path |-> route.doc_path,
     area |-> route.area,
     priority |-> PriorityFor(Len(matched_keywords)),
     match_score |-> IF Len(matched_keywords) < 5 THEN Len(matched_keywords) ELSE 5,
     matched_keywords |->
         SubSeq(matched_keywords, 1,
                IF Len(matched_keywords) < 5 THEN Len(matched_keywords) ELSE 5)]

MakeImpact(route, matched_keywords) ==
    [doc_path |-> route.doc_path,
     area |-> route.area,
     priority |-> PriorityFor(Len(matched_keywords)),
     match_score |-> Len(matched_keywords),
     matched_keywords |->
         SubSeq(matched_keywords, 1,
                IF Len(matched_keywords) < 5 THEN Len(matched_keywords) ELSE 5)]

RECURSIVE CollectImpacts_keepHighest(_, _, _, _, _)
CollectImpacts_keepHighest(routing_table, i, combined_text, impacts, seen_docs) ==
    IF i > Len(routing_table) THEN impacts
    ELSE LET route == routing_table[i]
             matched_keywords == MatchedKeywords(route, combined_text)
             lower(impact) == \/ impact.doc_path # route.doc_path
                              \/ impact.match_score >= Len(matched_keywords)
         IN IF Len(matched_keywords) = 0
            THEN CollectImpacts_keepHighest(routing_table, i + 1, combined_text,
                                            impacts, seen_docs)
            ELSE IF \E j \in DOMAIN impacts :
                        /\ impacts[j].doc_path = route.doc_path
                        /\ impacts[j].match_score >= Len(matched_keywords)
            THEN CollectImpacts_keepHighest(routing_table, i + 1, combined_text,
                                            impacts, seen_docs)
            ELSE CollectImpacts_keepHighest(
                     routing_table, i + 1, combined_text,
                     Append(SelectSeq(impacts, lower),
                            MakeImpact(route, matched_keywords)),
                     seen_docs \cup {route.doc_path})

\* The loop over doc_arch.routing_table, from route i on.
RECURSIVE CollectImpacts(_, _, _, _, _)
CollectImpacts(routing_table, i, combined_text, impacts, seen_docs) ==
    IF i > Len(routing_table) THEN impacts
    ELSE LET route == routing_table[i]
             matched_keywords == MatchedKeywords(route, combined_text)
         IN IF Len(matched_keywords) = 0
            THEN CollectImpacts(routing_table, i + 1, combined_text,
                                impacts, seen_docs)
            ELSE IF route.doc_path \in seen_docs
            THEN CollectImpacts(routing_table, i + 1, combined_text,
                                impacts, seen_docs)
            ELSE CollectImpacts(routing_table, i + 1, combined_text,
                                Append(impacts, MakeImpact(route, matched_keywords)),
                                seen_docs \cup {route.doc_path})

SortKeyLE_strict(a, b) ==
    \/ priority_order(a.priority) < priority_order(b.priority)
    \/ /\ priority_order(a.priority) = priority_order(b.priority)
       /\ 0 - a.match_score < 0 - b.match_score

\* key(a) <= key(b) for key = (priority_order[priority], -match_score)
SortKeyLE(a, b) ==
    \/ priority_order(a.priority) < priority_order(b.priority)
    \/ /\ priority_order(a.priority) = priority_order(b.priority)
       /\ 0 - a.match_score <= 0 - b.match_score

\* list.sort(key=...): stable, ascending.
RECURSIVE SortImpacts(_)
SortImpacts(impacts) ==
    IF impacts = <<>> THEN <<>>
    ELSE LET sorted == SortImpacts(SubSeq(impacts, 1, Len(impacts) - 1))
             x == impacts[Len(impacts)]
             n == Cardinality({j \in DOMAIN sorted : SortKeyLE(sorted[j], x)})
         IN SubSeq(sorted, 1, n) \o <<x>> \o SubSeq(sorted, n + 1, Len(sorted))

WarnApi == "New API endpoint detected - ensure it's documented in OpenAPI/Swagger"
WarnTests == "New component detected - consider adding unit tests"
WarnEnv == "Environment variable changes detected - update .env.example"
WarnMigration == "Data model changes detected - consider if migration is needed"

AddWarnings(plan_content) ==
    LET plan_lower == TextLower(plan_content)
        has(needle) == In(needle, plan_lower)
    IN (IF /\ (has("endpoint") \/ has("api")) /\ has("route")
           /\ ~has("document") /\ ~has("docs")
        THEN <<WarnApi>> ELSE <<>>)
       \o (IF has("component") /\ has("tsx") /\ ~has("test")
           THEN <<WarnTests>> ELSE <<>>)
       \o (IF /\ has("env") /\ (has("variable") \/ has("config"))
              /\ ~has(".env.example")
           THEN <<WarnEnv>> ELSE <<>>)
       \o (IF /\ (has("model") \/ has("schema") \/ has("database"))
              /\ ~has("migration")
           THEN <<WarnMigration>> ELSE <<>>)

AnalyzePlanImpactOf_warnCombined(plan_content, doc_arch, task) ==
    LET combined_text == TextLower(task \o plan_content)
    IN [impacts |-> SortImpacts(CollectImpacts(doc_arch.routing_table, 1,
                                               combined_text, <<>>, {})),
        warnings |-> AddWarnings(task \o plan_content)]

AnalyzePlanImpactOf(plan_content, doc_arch, task) ==
    LET combined_text == TextLower(task \o plan_content)
    IN [impacts |-> SortImpacts(CollectImpacts(doc_arch.routing_table, 1,
                                               combined_text, <<>>, {})),
        warnings |-> AddWarnings(plan_content)]

-----------------------------------------------------------------------------
(* SpecDocImpact: analyze_plan_impact on bounded plans, tasks and tables *)

MaxPlanWords == 3
MaxRoutes == 3

SeqsUpTo(set, n) == UNION {[1..k -> set] : k \in 0..n}

ImpactAreas == {<<"Backend", "API">>, <<"API">>, <<"Caching">>}
DocPaths == {"api/CLAUDE.md", "docs/CLAUDE.md", "web/CLAUDE.md"}
ImpactRoutes ==
    {DocRoute(area, doc_path) :
        area \in ImpactAreas, doc_path \in {"api/CLAUDE.md", "docs/CLAUDE.md"}}
    \cup {DocRoute(<<"Caching">>, "web/CLAUDE.md")}
ImpactPlans == SeqsUpTo({"fastapi", "endpoint", "Routes", "memcached"}, MaxPlanWords)
ImpactTasks == {<<>>, <<"request", "json">>}

DocArchitecture(routing_table) ==
    [root_doc |-> None, routing_table |-> routing_table, conventions |-> <<>>]

ImpactInputs ==
    {[plan_content |-> plan, task |-> task, doc_arch |-> DocArchitecture(table)] :
        plan \in ImpactPlans, task \in ImpactTasks,
        table \in SeqsUpTo(ImpactRoutes, MaxRoutes)}

ApiFragments ==
    {<<>>, <<"endpoint">>, <<"API", "Routes">>, <<"endpoint", "Routes">>,
     <<"API", "Routes", "documentation">>, <<"endpoint", "Routes", "docs">>}
ComponentFragments ==
    {<<>>, <<"component">>, <<"component", "Button.tsx">>,
     <<"component", "Button.tsx", "latest">>}
EnvFragments ==
    {<<>>, <<"environment">>, <<"environment", "variable">>,
     <<"environment", "config">>, <<"config", ".env.example">>}
ModelFragments ==
    {<<>>, <<"model">>, <<"schema">>, <<"database", "migration">>, <<"migration">>}
WarningPlans ==
    {a \o c \o e \o m : a \in ApiFragments, c \in ComponentFragments,
                        e \in EnvFragments, m \in ModelFragments}
WarningTasks ==
    {<<>>, <<"endpoint", "Routes">>,
     <<"docs", "latest", ".env.example", "migration">>}
WarningTables == {<<>>, <<DocRoute(<<"API">>, "api/CLAUDE.md")>>}

WarningInputs ==
    {[plan_content |-> plan, task |-> task, doc_arch |-> DocArchitecture(table)] :
        plan \in WarningPlans, task \in WarningTasks, table \in WarningTables}

InitDocImpact ==
    /\ EngineIdle
    /\ fnArgs \in {Some(a) : a \in ImpactInputs \cup WarningInputs}
    /\ fnResult = None

CallAnalyzePlanImpact ==
    /\ fnArgs # None
    /\ fnResult = None
    /\ fnResult' = Some(AnalyzePlanImpactOf(Get(fnArgs).plan_content,
                                            Get(fnArgs).doc_arch,
                                            Get(fnArgs).task))
    /\ UNCHANGED <<fnArgs, engineVars>>

NextDocImpact == CallAnalyzePlanImpact

SpecDocImpact == InitDocImpact /\ [][NextDocImpact]_vars

-----------------------------------------------------------------------------
(* SpecMatches: DocRoute.matches and the score of analyze_plan_impact *)

MatchesAreas == ImpactAreas \cup {<<"UI">>}
MatchesTexts ==
    SeqsUpTo({"API", "fastapi", "endpoint", "Routes", "memcached"}, MaxPlanWords)
MatchesInputs ==
    {[route |-> DocRoute(area, "api/CLAUDE.md"), text |-> text] :
        area \in MatchesAreas, text \in MatchesTexts}

InitMatches ==
    /\ EngineIdle
    /\ fnArgs \in {Some(a) : a \in MatchesInputs}
    /\ fnResult = None

\* route.matches(text), and analyze_plan_impact(text, doc_arch) for the
\* architecture whose routing table is that one route
CallMatches ==
    /\ fnArgs # None
    /\ fnResult = None
    /\ fnResult' = Some([matches |-> DocRoute_matches(Get(fnArgs).route,
                                                      Get(fnArgs).text),
                         analysis |-> AnalyzePlanImpactOf(
                                          Get(fnArgs).text,
                                          DocArchitecture(<<Get(fnArgs).route>>),
                                          <<>>)])
    /\ UNCHANGED <<fnArgs, engineVars>>

NextMatches == CallMatches

SpecMatches == InitMatches /\ [][NextMatches]_vars

-----------------------------------------------------------------------------
(* doc_parser: parse_routing_table *)

\* A line of a CLAUDE.md file.  A line that starts with '|', after optional
\* white space, is its cells: "|c1|c2|".  Any other line is one run of text.
\* A cell is a sequence of words; the word " " is white space.
PipeLine(cells) == [pipe |-> TRUE, cells |-> cells]
TextLine(text) == [pipe |-> FALSE, cells |-> <<text>>]

\* term in line.lower()
LineMentions(line, term) ==
    \E c \in DOMAIN line.cells : In(term, TextLower(line.cells[c]))

\* 'changing' in line_lower and 'update' in line_lower
IsHeader(line) == LineMentions(line, "changing") /\ LineMentions(line, "update")

\* re.match(r'^\s*\|[\s\-:]+\|', line)
IsSeparator(line) ==
    /\ line.pipe
    /\ Len(line.cells) >= 1
    /\ line.cells[1] # <<>>
    /\ \A w \in DOMAIN line.cells[1] : line.cells[1][w] \in {" ", "---", ":---"}

\* re.match(r'^\s*\|([^|]+)\|([^|]+)', line)
RowMatches(line) ==
    /\ line.pipe
    /\ Len(line.cells) >= 2
    /\ line.cells[1] # <<>>
    /\ line.cells[2] # <<>>

\* str.strip() of a cell
Strip(cell) == SelectSeq(cell, LAMBDA w : w # " ")

\* The doc path with the backticks around it stripped, for a one-word doc
\* path; "" when nothing is left.  A backtick is written ^.
StripBackticks(w) ==
    CASE w = "^api/CLAUDE.md^" -> "api/CLAUDE.md"
      [] w = "^^" -> ""
      [] OTHER -> w

RowArea(line) == Strip(line.cells[1])
RowDocPath(line) ==
    IF Strip(line.cells[2]) = <<>> THEN ""
    ELSE StripBackticks(Strip(line.cells[2])[1])

RECURSIVE ParseRoutingLines_neverCloses(_, _, _, _)
ParseRoutingLines_neverCloses(lines, i, in_routing_table, routes) ==
    IF i > Len(lines) THEN routes
    ELSE LET line == lines[i]
         IN IF IsHeader(line)
            THEN ParseRoutingLines_neverCloses(lines, i + 1, TRUE, routes)
            ELSE IF IsSeparator(line)
            THEN ParseRoutingLines_neverCloses(lines, i + 1, in_routing_table, routes)
            ELSE IF /\ in_routing_table /\ RowMatches(line)
                    /\ ~In("---", RowArea(line)) /\ RowDocPath(line) # ""
            THEN ParseRoutingLines_neverCloses(
                     lines, i + 1, in_routing_table,
                     Append(routes, DocRoute(RowArea(line), RowDocPath(line))))
            ELSE ParseRoutingLines_neverCloses(lines, i + 1, in_routing_table, routes)

\* The loop over the lines, from line i on.
RECURSIVE ParseRoutingLines(_, _, _, _)
ParseRoutingLines(lines, i, in_routing_table, routes) ==
    IF i > Len(lines) THEN routes
    ELSE LET line == lines[i]
         IN IF IsHeader(line)
            THEN ParseRoutingLines(lines, i + 1, TRUE, routes)
            ELSE IF IsSeparator(line)
            THEN ParseRoutingLines(lines, i + 1, in_routing_table, routes)
            ELSE IF in_routing_table /\ ~line.pipe
            THEN ParseRoutingLines(lines, i + 1, FALSE, routes)
            ELSE IF /\ in_routing_table /\ RowMatches(line)
                    /\ ~In("---", RowArea(line)) /\ RowDocPath(line) # ""
            THEN ParseRoutingLines(
                     lines, i + 1, in_routing_table,
                     Append(routes, DocRoute(RowArea(line), RowDocPath(line))))
            ELSE ParseRoutingLines(lines, i + 1, in_routing_table, routes)

ParseRoutingTable(content) == ParseRoutingLines(content, 1, FALSE, <<>>)

-----------------------------------------------------------------------------
(* SpecRoutingTable: parse_routing_table on bounded files *)

MaxLines == 4

RoutingLines ==
    { PipeLine(<< <<"If", "you're", "changing...">>, <<"Update...">> >>),
      TextLine(<<"When", "changing", "code,", "update", "docs">>),
      PipeLine(<< <<"---">>, <<"---">> >>),
      PipeLine(<< <<"Backend", "API">>, <<" ", "^api/CLAUDE.md^", " ">> >>),
      PipeLine(<< <<" ", "Caching", " ">>, <<"docs/CLAUDE.md">>, <<"notes">> >>),
      PipeLine(<< <<"Legacy---old">>, <<"docs/CLAUDE.md">> >>),
      PipeLine(<< <<"UI">>, <<" ">> >>),
      PipeLine(<< <<"API">>, <<"^^">> >>),
      PipeLine(<< <<"Caching">> >>),
      TextLine(<<"Some", "prose">>),
      TextLine(<<>>) }

RoutingContents == SeqsUpTo(RoutingLines, MaxLines)

InitRoutingTable ==
    /\ EngineIdle
    /\ fnArgs \in {Some(c) : c \in RoutingContents}
    /\ fnResult = None

CallParseRoutingTable ==
    /\ fnArgs # None
    /\ fnResult = None
    /\ fnResult' = Some(ParseRoutingTable(Get(fnArgs)))
    /\ UNCHANGED <<fnArgs, engineVars>>

NextRoutingTable == CallParseRoutingTable

SpecRoutingTable == InitRoutingTable /\ [][NextRoutingTable]_vars

-----------------------------------------------------------------------------
(* doc_parser: parse_conventions *)

\* len(w) of the words that occur in list items
WordLen(w) ==
    CASE w = "Use" -> 3
      [] w = "typed" -> 5
      [] w = "responses" -> 9
      [] w = "Validate" -> 8
      [] w = "every" -> 5
      [] w = "request" -> 7
      [] w = "exactly" -> 7
      [] w = "10" -> 2

\* len(rule): the words and the single spaces between them
RECURSIVE RuleLen(_)
RuleLen(rule) ==
    IF rule = <<>> THEN 0
    ELSE IF Len(rule) = 1 THEN WordLen(rule[1])
    ELSE WordLen(Head(rule)) + 1 + RuleLen(Tail(rule))

SectionSuffixes == {"rules", "guidelines", "conventions", "patterns"}

\* line.startswith('#')
StartsWithHash(line) ==
    /\ ~line.pipe
    /\ line.cells[1] # <<>>
    /\ line.cells[1][1] \in {"#", "##", "###"}

\* re.match(section_pattern, line, re.IGNORECASE)
HeaderMatch(line) ==
    /\ StartsWithHash(line)
    /\ Len(line.cells[1]) >= 2
    /\ Lower(line.cells[1][Len(line.cells[1])]) \in SectionSuffixes

\* header_match.group(1).strip().lower(): the words between the hashes and
\* the suffix; <<>>, the empty string, when there are none
SectionName(line) ==
    TextLower(SubSeq(line.cells[1], 2, Len(line.cells[1]) - 1))

\* re.match(r'^\s*[-*\d.]+\s+(.+)$', line)
RuleMatch(line) ==
    /\ ~line.pipe
    /\ Len(line.cells[1]) >= 2
    /\ line.cells[1][1] \in {"-", "*", "1.", "2."}

\* rule_match.group(1).strip()
RuleOf(line) == SubSeq(line.cells[1], 2, Len(line.cells[1]))

\* conventions[key] = rules
SetItem(conventions, key, rules) ==
    [k \in DOMAIN conventions \cup {key} |->
        IF k = key THEN rules ELSE conventions[k]]

\* The truth value of current_section: neither None nor the empty string.
Truthy(current_section) ==
    current_section # None /\ Get(current_section) # <<>>

SaveSection(st) ==
    IF Truthy(st.current_section) /\ st.current_rules # <<>>
    THEN SetItem(st.conventions, Get(st.current_section), st.current_rules)
    ELSE st.conventions

ConventionsStart ==
    [conventions |-> <<>>, current_section |-> None, current_rules |-> <<>>]

ConventionsStep_atLeast10(st, line) ==
    IF HeaderMatch(line)
    THEN [conventions |-> SaveSection(st),
          current_section |-> Some(SectionName(line)),
          current_rules |-> <<>>]
    ELSE IF Truthy(st.current_section)
    THEN IF RuleMatch(line)
         THEN IF RuleLen(RuleOf(line)) >= 10
              THEN [st EXCEPT !.current_rules = Append(@, RuleOf(line))]
              ELSE st
         ELSE IF StartsWithHash(line)
         THEN [conventions |-> SaveSection(st),
               current_section |-> None,
               current_rules |-> <<>>]
         ELSE st
    ELSE st

\* One iteration of the loop over the lines.
ConventionsStep(st, line) ==
    IF HeaderMatch(line)
    THEN [conventions |-> SaveSection(st),
          current_section |-> Some(SectionName(line)),
          current_rules |-> <<>>]
    ELSE IF Truthy(st.current_section)
    THEN IF RuleMatch(line)
         THEN IF RuleLen(RuleOf(line)) > 10
              THEN [st EXCEPT !.current_rules = Append(@, RuleOf(line))]
              ELSE st
         ELSE IF StartsWithHash(line)
         THEN [conventions |-> SaveSection(st),
               current_section |-> None,
               current_rules |-> <<>>]
         ELSE st
    ELSE st

RECURSIVE ConventionsLoop(_, _, _)
ConventionsLoop(lines, i, st) ==
    IF i > Len(lines) THEN st
    ELSE ConventionsLoop(lines, i + 1, ConventionsStep(st, lines[i]))

ParseConventions(content) ==
    SaveSection(ConventionsLoop(content, 1, ConventionsStart))

-----------------------------------------------------------------------------
(* SpecConventions: parse_conventions, line by line, on bounded files *)

MaxConventionLines == 4

ConventionLines ==
    { TextLine(<<"##", "API", "Rules">>),
      TextLine(<<"###", "api", "guidelines">>),
      TextLine(<<"##", "Testing", "Patterns">>),
      TextLine(<<"##", "Rules">>),
      TextLine(<<"#", "Overview">>),
      TextLine(<<"-", "Use", "typed", "responses">>),
      TextLine(<<"1.", "Validate", "every", "request">>),
      TextLine(<<"*", "exactly", "10">>),
      TextLine(<<"Some", "prose">>) }

ConventionContents == SeqsUpTo(ConventionLines, MaxConventionLines)

\* fnResult holds the local variables of the call: the index of the next
\* line, the loop state, and whether the call has returned.
InitConventions ==
    /\ EngineIdle
    /\ fnArgs \in {Some(c) : c \in ConventionContents}
    /\ fnResult = Some([i |-> 1, st |-> ConventionsStart, returned |-> FALSE])

\* for line in lines: ...
ConventionsLine ==
    /\ ~Get(fnResult).returned
    /\ Get(fnResult).i <= Len(Get(fnArgs))
    /\ fnResult' = Some([i |-> Get(fnResult).i + 1,
                         st |-> ConventionsStep(Get(fnResult).st,
                                                Get(fnArgs)[Get(fnResult).i]),
                         returned |-> FALSE])
    /\ UNCHANGED <<fnArgs, engineVars>>

\* after the loop: save the last section and return conventions
ConventionsReturn ==
    /\ ~Get(fnResult).returned
    /\ Get(fnResult).i > Len(Get(fnArgs))
    /\ fnResult' = Some([i |-> Get(fnResult).i,
                         st |-> [conventions |-> SaveSection(Get(fnResult).st),
                                 current_section |-> Get(fnResult).st.current_section,
                                 current_rules |-> Get(fnResult).st.current_rules],
                         returned |-> TRUE])
    /\ UNCHANGED <<fnArgs, engineVars>>

NextConventions == ConventionsLine \/ ConventionsReturn

SpecConventions == InitConventions /\ [][NextConventions]_vars

-----------------------------------------------------------------------------
(* doc_parser: parse_doc_architecture *)

\* 'CLAUDE.MD' in the upper-cased file name or path
IsClaudeMd(path) == path \in {"CLAUDE.md", "api/CLAUDE.md", "docs/claude.md"}

LoadedFileOf(path, content) == [path |-> path, content |-> content]

\* for key, rules in conventions.items(): extend the rules of a key that is
\* already there, else set them
MergeConventions(conventions, parsed) ==
    [k \in DOMAIN conventions \cup DOMAIN parsed |->
        IF k \in DOMAIN conventions
        THEN IF k \in DOMAIN parsed
             THEN conventions[k] \o parsed[k]
             ELSE conventions[k]
        ELSE parsed[k]]

\* The loop over context.files, from file i on.
RECURSIVE ParseDocFiles(_, _, _)
ParseDocFiles(files, i, arch) ==
    IF i > Len(files) THEN arch
    ELSE IF IsClaudeMd(files[i].path)
    THEN ParseDocFiles(
             files, i + 1,
             [root_doc |-> IF files[i].path = "CLAUDE.md"
                           THEN Some(files[i].path) ELSE arch.root_doc,
              routing_table |-> arch.routing_table
                                   \o ParseRoutingTable(files[i].content),
              conventions |-> MergeConventions(arch.conventions,
                                               ParseConventions(files[i].content))])
    ELSE ParseDocFiles(files, i + 1, arch)

ParseDocArchitecture(files) == ParseDocFiles(files, 1, DocArchitecture(<<>>))

-----------------------------------------------------------------------------
(* SpecDocArchitecture: parse_doc_architecture on bounded contexts *)

MaxFiles == 2
MaxBlocks == 2

\* Pieces of a documentation file: sections of rules, routing tables, prose.
ContentBlocks ==
    { << TextLine(<<"##", "API", "Rules">>),
         TextLine(<<"-", "Use", "typed", "responses">>) >>,
      << TextLine(<<"###", "api", "guidelines">>),
         TextLine(<<"1.", "Validate", "every", "request">>) >>,
      << TextLine(<<"##", "Testing", "Patterns">>),
         TextLine(<<"-", "Use", "typed", "responses">>),
         TextLine(<<"*", "exactly", "10">>) >>,
      << PipeLine(<< <<"If", "you're", "changing...">>, <<"Update...">> >>),
         PipeLine(<< <<"---">>, <<"---">> >>),
         PipeLine(<< <<"Backend", "API">>, <<"^api/CLAUDE.md^">> >>) >>,
      << PipeLine(<< <<"If", "you're", "changing...">>, <<"Update...">> >>),
         PipeLine(<< <<"Caching">>, <<"docs/CLAUDE.md">> >>) >>,
      << TextLine(<<"#", "Overview">>),
         TextLine(<<"Some", "prose">>) >> }

RECURSIVE Flatten(_)
Flatten(blocks) ==
    IF blocks = <<>> THEN <<>> ELSE Head(blocks) \o Flatten(Tail(blocks))

DocContents == {Flatten(bs) : bs \in SeqsUpTo(ContentBlocks, MaxBlocks)}
DocFilePaths == {"CLAUDE.md", "api/CLAUDE.md", "README.md"}
DocFiles == {LoadedFileOf(path, content) : path \in DocFilePaths, content \in DocContents}
DocContexts == SeqsUpTo(DocFiles, MaxFiles)

InitDocArchitecture ==
    /\ EngineIdle
    /\ fnArgs \in {Some(files) : files \in DocContexts}
    /\ fnResult = None

CallParseDocArchitecture ==
    /\ fnArgs # None
    /\ fnResult = None
    /\ fnResult' = Some(ParseDocArchitecture(Get(fnArgs)))
    /\ UNCHANGED <<fnArgs, engineVars>>

NextDocArchitecture == CallParseDocArchitecture

SpecDocArchitecture == InitDocArchitecture /\ [][NextDocArchitecture]_vars

-----------------------------------------------------------------------------
(* loader: ContextLoader._load_file *)

\* len(SimpleTokenizer().encode(text)) for a text of the given length
Encode(chars) == IF chars \div 4 > 1 THEN chars \div 4 ELSE 1

LoadedContext == [files |-> <<>>, total_tokens |-> 0, files_skipped |-> <<>>]

\* any(f.path == relative_path for f in context.files)
AlreadyLoaded(context, path) ==
    \E f \in DOMAIN context.files : context.files[f].path = path

LimitReached_strict(context, max_tokens) == context.total_tokens > max_tokens

\* context.total_tokens >= self.max_tokens
LimitReached(context, max_tokens) == context.total_tokens >= max_tokens

\* An entry of files_skipped: the path, and the note in brackets after it.
Skipped(path, note) == [path |-> path, note |-> note]

\* _load_file for a file of the repository; the content stands for the text
\* after the secrets in it were redacted.
LoadFileInto(context, loader, file) ==
    IF AlreadyLoaded(context, file.path) THEN context
    ELSE IF file.skip
    THEN [context EXCEPT !.files_skipped = Append(@, Skipped(file.path, ""))]
    ELSE IF LimitReached(context, loader.max_tokens)
    THEN [context EXCEPT !.files_skipped = Append(@, Skipped(file.path, "token limit"))]
    ELSE IF ~file.readable
    THEN [context EXCEPT
              !.files_skipped = Append(@, Skipped(file.path, "UnicodeDecodeError"))]
    ELSE LET counted == Encode(file.chars)
             capped == IF counted > loader.max_file_tokens
                       THEN loader.max_file_tokens ELSE counted
             remaining == loader.max_tokens - context.total_tokens
             tokens == IF capped > remaining THEN remaining ELSE capped
         IN [context EXCEPT
                !.files = Append(@, [path |-> file.path,
                                     tokens |-> tokens,
                                     truncated |-> counted > loader.max_file_tokens
                                                      \/ capped > remaining]),
                !.total_tokens = @ + tokens]

-----------------------------------------------------------------------------
(* SpecLoader: successive _load_file calls of one ContextLoader.load *)

MaxLoads == 4

LoaderLimits ==
    {[max_tokens |-> mt, max_file_tokens |-> mf] : mt \in {12, 30}, mf \in {10, 16}}
FileSizes == {3, 24, 80}
TextPaths == {"CLAUDE.md", "README.md", "src/app.py"}

\* The files of the repository that load walks over: three text files of
\* some size, an image, which _should_skip refuses, and a file that is not
\* valid UTF-8.
RepoFiles(sizes) ==
    {[path |-> p, chars |-> sizes[p], skip |-> FALSE, readable |-> TRUE] : p \in TextPaths}
    \cup {[path |-> "logo.png", chars |-> 80, skip |-> TRUE, readable |-> TRUE],
          [path |-> "notes.txt", chars |-> 80, skip |-> FALSE, readable |-> FALSE]}

InitLoader ==
    /\ EngineIdle
    /\ fnArgs \in {Some([loader |-> l, repo |-> RepoFiles(sizes)]) :
                      l \in LoaderLimits, sizes \in [TextPaths -> FileSizes]}
    /\ fnResult = Some([context |-> LoadedContext, considered |-> <<>>])

\* self._load_file(file_path, repo_path, context): auto-detected files and
\* the matches of the include patterns come in any order, and a file can
\* come more than once
LoadFile(file) ==
    /\ Len(Get(fnResult).considered) < MaxLoads
    /\ fnResult' = Some([context |-> LoadFileInto(Get(fnResult).context,
                                                  Get(fnArgs).loader, file),
                         considered |-> Append(Get(fnResult).considered, file.path)])
    /\ UNCHANGED <<fnArgs, engineVars>>

NextLoader == \E file \in Get(fnArgs).repo : LoadFile(file)

SpecLoader == InitLoader /\ [][NextLoader]_vars

----------------------------------------------------------------------------
(* Properties of the engine *)

Fresh == run # None /\ ~Cfg.resumed
Resumed == run # None /\ Cfg.resumed
S0 == Get(session0)

PhaseCycle == <<"architect", "critic", "rebuttal", "integrator">>

\* turn phases of a conversation, in order
PhasesOf(conversation) == [i \in 1..Len(conversation) |-> conversation[i].phase]

\* (architect, critic, rebuttal, integrator) repeated n times
CyclesOf(n) == [i \in 1..(4 * n) |-> PhaseCycle[((i - 1) % 4) + 1]]

\* cost_usd of the turns of a conversation, in order
CostsIn(conversation) == [i \in 1..Len(conversation) |-> conversation[i].cost_usd]

\* a step of the running process (not the start of another process)
SameProcess == session # None /\ session' # None /\ runs' = runs

C1_FinalState ==
    (Fresh /\ Cfg.max_rounds >= 1 /\ exitKind = "returned")
        => /\ PhasesOf(S.conversation) = CyclesOf(Cfg.max_rounds)
           /\ S.status = "COMPLETED"

C1_RoundStep ==
    (SameProcess /\ Fresh /\ Cfg.max_rounds >= 1)
        => /\ S'.round # S.round
                => /\ S'.round = S.round + 1
                   /\ S.current_phase = "INTEGRATOR"
                   /\ S'.current_phase = "ARCHITECT"
           /\ (S.current_phase = "INTEGRATOR" /\ S'.current_phase = "ARCHITECT")
                => S'.round = S.round + 1

\* C1: a fresh run with max_rounds = N >= 1 that ends without a provider
\* failure, cost abort or interrupt has recorded exactly the phases
\* (architect, critic, rebuttal, integrator) N times and has status COMPLETED; the
\* round changes only by +1 and exactly on the step INTEGRATOR -> ARCHITECT.
C1_PhaseSequence == [](C1_FinalState) /\ [][C1_RoundStep]_vars

C1_Witness ==
    /\ Fresh /\ Cfg.max_rounds = 2 /\ exitKind = "returned"
    /\ Len(S.conversation) = 8 /\ S.round = 2

C2_NeverInvokedOverLimit ==
    pc = "agent" => S.total_cost_usd < Cfg.max_total_cost

C2_AbortStep ==
    (pc = "loop" /\ S.round <= Cfg.max_rounds
        /\ S.total_cost_usd >= Cfg.max_total_cost)
        => /\ pc' = "exited"
           /\ exitKind' = "cost_limit"
           /\ S'.status = "ABORTED"
           /\ S'.conversation = S.conversation
           /\ invoked' = invoked

\* C2: in fresh and resumed runs no agent call is pending while the cumulative
\* cost is >= max_total_cost, and the only step from the head of an iteration
\* with the cost at or over the limit ends the run with status ABORTED and the
\* cost-limit error, with no agent invoked and no turn appended.
C2_CostGuard == [](C2_NeverInvokedOverLimit) /\ [][C2_AbortStep]_vars

C2_Witness ==
    /\ exitKind = "cost_limit" /\ invoked >= 1
    /\ S.total_cost_usd = Cfg.max_total_cost

\* C3: in every state, the session object's total_cost_usd is the
\* floating-point sum (from 0, in turn order) of the cost_usd of its turns, and
\* so is the total of the session stored in the file.
C3_CostIsSumOfTurns ==
    /\ session # None => S.total_cost_usd = FSum(CostsIn(S.conversation))
    /\ disk # None =>
          Session_load(disk).total_cost_usd
              = FSum(CostsIn(Session_load(disk).conversation))

\* a resumed session whose sum was rounded (3 + 1 + 3 = 7 rounds to 8) and
\* whose turns were recorded by two processes
C3_Witness ==
    /\ Resumed /\ session # None
    /\ Len(S0.conversation) >= 1
    /\ Len(S.conversation) > Len(S0.conversation)
    /\ S.total_cost_usd = 8

\* C4: a pending provider call ends in one of three ways: its turn is
\* recorded, the process is interrupted, or (the call failed) the process ends
\* with the provider error, no further invocation, status ABORTED, and the
\* conversation, total cost, phase and round as before the call.
C4_FailureAborts ==
    [][pc = "agent" =>
          \/ Len(S'.conversation) = Len(S.conversation) + 1
          \/ exitKind' = "interrupt"
          \/ /\ pc' = "exited"
             /\ exitKind' = "provider_error"
             /\ invoked' = invoked
             /\ S'.status = "ABORTED"
             /\ S'.conversation = S.conversation
             /\ S'.total_cost_usd = S.total_cost_usd
             /\ S'.current_phase = S.current_phase
             /\ S'.round = S.round]_vars

C4_Witness ==
    /\ exitKind = "provider_error"
    /\ S.current_phase = "REBUTTAL"
    /\ Len(S.conversation) = 2
    /\ S.status = "ABORTED"

\* C5 (as claimed): whenever a run has ended with a provider failure or the
\* cost limit, fresh or resumed, the process has written the session file,
\* and the file holds the session with every recorded turn and status ABORTED.
C5_SnapshotOnError ==
    exitKind \in {"provider_error", "cost_limit"}
        => /\ saved
           /\ disk # None
           /\ Session_load(disk).conversation = S.conversation
           /\ Session_load(disk).status = "ABORTED"

\* C6 (as claimed): whenever a run, fresh or resumed, was interrupted during a
\* pending provider call or feedback wait, the process has written the
\* session file, and the file holds exactly the turns recorded so far and
\* the status the session had when the interrupt arrived.
C6_SnapshotOnInterrupt ==
    exitKind = "interrupt"
        => /\ saved
           /\ disk # None
           /\ Session_load(disk).conversation = S.conversation
           /\ Session_load(disk).status = S.status

\* C7: in a resumed run the first agent invoked is the agent of the stored
\* current_phase, called at the stored round, and the turns stored in the
\* file stay an unchanged prefix of the conversation.
C7_ResumeAtStoredPhase ==
    Resumed =>
        /\ firstCall # None =>
              /\ Get(firstCall).phase = S0.current_phase
              /\ Get(firstCall).round = S0.round
              /\ Get(firstCall).role = AgentRole(S0.current_phase)
        /\ Len(S.conversation) >= Len(S0.conversation)
        /\ SubSeq(S.conversation, 1, Len(S0.conversation)) = S0.conversation

C7_Witness ==
    /\ Resumed /\ firstCall # None
    /\ S0.current_phase = "REBUTTAL"
    /\ Len(S0.conversation) = 2
    /\ S0.conversation[2].human_feedback # None
    /\ Len(S.conversation) = 4

\* C8 (as claimed): an agent call is pending only while round <= max_rounds
\* and the status is not terminal, and a run started on a session whose status
\* is COMPLETED or ABORTED invokes no agent and appends no turn.
C8_NoTurnWhenTerminal ==
    /\ pc = "agent" =>
          S.round <= Cfg.max_rounds /\ S.status \notin {"COMPLETED", "ABORTED"}
    /\ (session0 # None /\ S0.status \in {"COMPLETED", "ABORTED"})
          => invoked = 0 /\ S.conversation = S0.conversation

\* C8 (amended): an agent call is pending only while round <= max_rounds, and
\* a run started on a session whose round exceeds max_rounds invokes no agent
\* and appends no turn; the status of the session takes no part in it.
C8_RoundGuard ==
    /\ pc = "agent" => S.round <= Cfg.max_rounds
    /\ (session0 # None /\ S0.round > Cfg.max_rounds)
          => invoked = 0 /\ S.conversation = S0.conversation

C8_Witness ==
    /\ pc = "exited" /\ Resumed
    /\ S0.round > Cfg.max_rounds
    /\ Cfg.max_rounds >= 1
    /\ S0.status = "COMPLETED"
    /\ invoked = 0 /\ Len(S.conversation) = 8

\* C11: in a fresh run with max_rounds = N >= 1 the round never exceeds N, and
\* whenever the status is COMPLETED the conversation has exactly 4*N turns, its
\* last turn is an integrator turn and the round is N.
C11_CompletedShape ==
    (Fresh /\ Cfg.max_rounds >= 1)
        => /\ S.round <= Cfg.max_rounds
           /\ S.status = "COMPLETED"
                => /\ Len(S.conversation) = 4 * Cfg.max_rounds
                   /\ S.conversation[Len(S.conversation)].phase = "integrator"
                   /\ S.round = Cfg.max_rounds

C11_Witness ==
    /\ Fresh /\ Cfg.max_rounds = 2
    /\ S.status = "COMPLETED" /\ S.round = 2
    /\ Len(S.conversation) = 8
    /\ S.conversation[8].phase = "integrator"
    /\ S.conversation[4].phase = "integrator"

C12_InvokedRole ==
    pc = "agent" =>
        /\ Get(pending).phase = S.current_phase
        /\ Get(pending).role =
              CASE S.current_phase = "ARCHITECT" -> "architect"
                [] S.current_phase = "CRITIC" -> "critic"
                [] S.current_phase = "REBUTTAL" -> "architect"
                [] S.current_phase = "INTEGRATOR" -> "integrator"

C12_RecordedLabel ==
    (SameProcess /\ Len(S'.conversation) = Len(S.conversation) + 1)
        => LET turn == S'.conversation[Len(S'.conversation)]
           IN  /\ pc = "agent"
               /\ turn.model = Get(pending).role
               /\ turn.phase =
                     CASE S.current_phase = "ARCHITECT" -> "architect"
                       [] S.current_phase = "CRITIC" -> "critic"
                       [] S.current_phase = "REBUTTAL" -> "rebuttal"
                       [] S.current_phase = "INTEGRATOR" -> "integrator"

\* C12: the agent of a pending call has the role of the current phase, and the
\* architect role in the REBUTTAL phase; the turn recorded for the call is
\* answered by that agent and carries the value of the phase as its label
\* ("rebuttal" for REBUTTAL, not "architect").
C12_RoleAndLabel == [](C12_InvokedRole) /\ [][C12_RecordedLabel]_vars

\* a rebuttal turn answered by the architect agent
C12_Witness ==
    /\ session # None /\ Len(S.conversation) >= 3
    /\ S.conversation[3].phase = "rebuttal"
    /\ S.conversation[3].model = "architect"
    /\ S.conversation[1].phase = "architect"

C13_StatusWhilePending ==
    (run # None /\ Cfg.feedback_callback /\ pc \in {"loop", "agent", "feedback"})
        => /\ S.status = "AWAITING_FEEDBACK" <=> pc = "feedback"
           /\ pc = "feedback" <=> (pending # None /\ Get(pending).kind = "feedback")

C13_CallbackStep ==
    (SameProcess /\ Cfg.feedback_callback)
        => LET n == Len(S.conversation)
           IN  \* the callback is called when, and only when, a turn has just been
               \* appended and its cost accumulated; the phase has not advanced
               /\ Len(S'.conversation) = n + 1
                    => /\ pc' = "feedback"
                       /\ S'.total_cost_usd
                             = FAdd(S.total_cost_usd, S'.conversation[n + 1].cost_usd)
                       /\ S'.current_phase = S.current_phase
                       /\ S'.round = S.round
               /\ pc' = "feedback" => Len(S'.conversation) = n + 1
               \* its return attaches the text (or null) to that turn, and the
               \* status is no longer AWAITING_FEEDBACK when the phase advances
               /\ (pc = "feedback" /\ exitKind' # "interrupt")
                    => /\ Len(S'.conversation) = n
                       /\ \A i \in 1..(n - 1) : S'.conversation[i] = S.conversation[i]
                       /\ S'.conversation[n] \in
                             {[S.conversation[n] EXCEPT !.human_feedback = f] :
                                f \in {None} \cup {Some(t) : t \in FeedbackTexts}}
                       /\ S'.status \in {"IN_PROGRESS", "COMPLETED"}

\* C13 (as claimed): with a feedback callback, the callback is called once per
\* recorded turn, after the append and the cost update and before the phase
\* advances; the status is AWAITING_FEEDBACK exactly while the callback is
\* pending; the returned text or null goes to the turn just appended and the
\* status has left AWAITING_FEEDBACK when the next phase is computed.
C13_FeedbackProtocol == [](C13_StatusWhilePending) /\ [][C13_CallbackStep]_vars

C14_NoFeedbackState ==
    (run # None /\ ~Cfg.feedback_callback)
        => /\ pc # "feedback"
           /\ S.status = "AWAITING_FEEDBACK" => S0.status = "AWAITING_FEEDBACK"
           /\ \A i \in 1..Len(S.conversation) :
                 S.conversation[i].human_feedback =
                    IF i <= Len(S0.conversation)
                    THEN S0.conversation[i].human_feedback ELSE None

C14_NoFeedbackStep ==
    (SameProcess /\ ~Cfg.feedback_callback)
        => /\ S'.status = "AWAITING_FEEDBACK" => S.status = "AWAITING_FEEDBACK"
           /\ \A i \in 1..Len(S'.conversation) :
                 S'.conversation[i].human_feedback =
                    IF i <= Len(S.conversation)
                    THEN S.conversation[i].human_feedback ELSE None

\* C14: a run without a feedback callback never waits for feedback, never
\* sets the status to AWAITING_FEEDBACK, leaves the human_feedback of the
\* turns it was given as they were and appends only turns whose human_feedback
\* is null.
C14_NoCallbackNoFeedback == [](C14_NoFeedbackState) /\ [][C14_NoFeedbackStep]_vars

\* a run without callback that resumed a session holding a feedback text
\* and appended turns to it
C14_Witness ==
    /\ Resumed /\ ~Cfg.feedback_callback
    /\ Len(S0.conversation) >= 1
    /\ S0.conversation[1].human_feedback # None
    /\ Len(S.conversation) >= Len(S0.conversation) + 2
    /\ S.status # "AWAITING_FEEDBACK"

\* a turn without its human_feedback
TurnCore(t) == [t EXCEPT !.human_feedback = None]

C15_AppendOnlyStep ==
    SameProcess
        => LET n == Len(S.conversation)
           IN  /\ Len(S'.conversation) \in {n, n + 1}
               /\ \A i \in 1..n :
                     /\ TurnCore(S'.conversation[i]) = TurnCore(S.conversation[i])
                     /\ S'.conversation[i].human_feedback # S.conversation[i].human_feedback
                           => /\ i = n /\ Len(S'.conversation) = n
                              /\ S.conversation[i].human_feedback = None
                              /\ pc = "feedback" /\ pc' # "feedback"
               /\ pc' = "feedback" => Len(S'.conversation) = n + 1

\* C15: every step of a run keeps the recorded turns in place and in order and
\* appends at most one; no field of a recorded turn changes except
\* human_feedback, which changes only on the last turn, from null, by the
\* return of the one feedback wait that follows the append of that turn.
C15_AppendOnly == [][C15_AppendOnlyStep]_vars

\* a feedback text on the second of at least three turns
C15_Witness ==
    /\ session # None /\ Len(S.conversation) >= 3
    /\ S.conversation[2].human_feedback # None
    /\ S.conversation[1].human_feedback = None
    /\ S.conversation[3].human_feedback = None
    /\ pc = "loop"

\* what an agent is given of a recorded turn
AgentView(t) ==
    [content |-> t.content, phase |-> t.phase, model |-> t.model,
     input_tokens |-> t.input_tokens, output_tokens |-> t.output_tokens,
     cost_usd |-> t.cost_usd]

\* the returns of a feedback callback
FeedbackValues == {None} \cup {Some(t) : t \in FeedbackTexts}

\* the part of the state that decides the next invocation
ControlValues ==
    (Phases \X (0..(MaxRounds + 2))) \X (Statuses \X {"loop", "exited"})

\* the input of a pending call is the task and every recorded turn, in order,
\* reduced to the fields of AgentView
C16_HistoryInput ==
    pc = "agent" =>
        /\ Get(pending).task = S.task
        /\ Len(Get(pending).history) = Len(S.conversation)
        /\ \A i \in 1..Len(S.conversation) :
              Get(pending).history[i] = AgentView(S.conversation[i])

\* the control state after a feedback wait is the same for every text the
\* callback can return
C16_FeedbackBlind ==
    pc = "feedback" =>
        \E v \in ControlValues : \A f \in FeedbackValues :
            ~ENABLED (/\ FeedbackReturns(f)
                      /\ <<<<S'.current_phase, S'.round>>, <<S'.status, pc'>>>> # v)

\* the return of a feedback wait changes no field of a turn that agents see
C16_FeedbackStep ==
    (SameProcess /\ pc = "feedback")
        => /\ Len(S'.conversation) = Len(S.conversation)
           /\ \A i \in 1..Len(S.conversation) :
                 AgentView(S'.conversation[i]) = AgentView(S.conversation[i])
           /\ S'.task = S.task

\* C16: every agent is given all previously recorded turns, in order, with
\* their content and without their human_feedback; the texts returned by the
\* callback change neither those fields nor which invocation comes next, so
\* runs that differ only in the feedback texts give every agent invocation the
\* same input.
C16_FeedbackNotForwarded ==
    /\ [](C16_HistoryInput /\ C16_FeedbackBlind)
    /\ [][C16_FeedbackStep]_vars

\* an agent called after a turn that carries a feedback text
C16_Witness ==
    /\ pc = "agent"
    /\ Len(S.conversation) = 2
    /\ S.conversation[2].human_feedback # None
    /\ Len(Get(pending).history) = 2
    /\ Get(pending).role = "architect"

\* turns recorded by the running process
RecordedInRun == Len(S.conversation) - Len(S0.conversation)

C17_OnePending ==
    run # None =>
        /\ pending # None <=> pc \in {"agent", "feedback"}
        /\ pc = "agent" => Get(pending).kind = "agent"
        /\ pc = "feedback" => Get(pending).kind = "feedback"
        \* provider calls issued and not yet answered: one during a call, else none
        /\ pc = "agent" => invoked = RecordedInRun + 1
        /\ pc \in {"loop", "feedback"} => invoked = RecordedInRun

C17_IssueStep ==
    (SameProcess /\ invoked' # invoked)
        => /\ invoked' = invoked + 1
           /\ pc = "loop" /\ pending = None
           /\ pc' = "agent"

\* C17: at most one provider call or feedback callback is pending at a time:
\* a provider call is issued only from the head of an iteration, when every
\* call issued before has been answered and recorded and no feedback wait is
\* open, and while a call or a wait is pending no call is issued.
C17_SingleInFlight == [](C17_OnePending) /\ [][C17_IssueStep]_vars

\* the third call of a run with callback: two turns recorded, two waits over
C17_Witness ==
    /\ pc = "agent" /\ Cfg.feedback_callback
    /\ invoked = 3 /\ RecordedInRun = 2
    /\ Get(pending).kind = "agent"

\* C18: while a run is going on, and after a run that ended with an error, an
\* interrupt, a status other than COMPLETED or an empty routing table,
\* doc_impact_analysis is what it was when run received the session (null for
\* a fresh one); after a run that returned with status COMPLETED and a
\* non-empty routing table it is the analysis of the final plan.
C18_DocImpactWhenCompleted ==
    run # None =>
        IF pc = "exited" /\ exitKind = "returned"
           /\ S.status = "COMPLETED" /\ Cfg.routes
        THEN /\ S.doc_impact_analysis # None
             /\ Get(S.doc_impact_analysis).plan
                   = S.conversation[Len(S.conversation)].content
             /\ Get(S.doc_impact_analysis).task = Cfg.task
        ELSE S.doc_impact_analysis = S0.doc_impact_analysis

\* a resumed run that completed and replaced the analysis it was given
C18_Witness ==
    /\ Resumed /\ pc = "exited" /\ exitKind = "returned"
    /\ S.status = "COMPLETED" /\ Cfg.routes
    /\ S0.doc_impact_analysis # None
    /\ S.doc_impact_analysis # S0.doc_impact_analysis
    /\ invoked >= 1

\* C21 (as claimed): whenever Orchestrator.run has returned without raising,
\* in a fresh or a resumed run, the session it returned has status COMPLETED.
C21_ReturnsCompleted ==
    (run # None /\ pc = "exited" /\ exitKind = "returned")
        => S.status = "COMPLETED"

\* a conversation that holds the phases of the planning cycle in order, each
\* at most once per round, as far as it goes
IsCyclePrefix(conversation) ==
    \A i \in 1..Len(conversation) :
        conversation[i].phase = PhaseCycle[((i - 1) % 4) + 1]

\* position of a phase in the planning cycle
PhasePosition(phase) ==
    CASE phase = "ARCHITECT" -> 0
      [] phase = "CRITIC" -> 1
      [] phase = "REBUTTAL" -> 2
      [] phase = "INTEGRATOR" -> 3

\* C32: in a run started from a fresh session, whenever the loop is at the
\* head of an iteration or has just issued the provider call of the turn, the
\* number of recorded turns is 4 * (round - 1) + the position of current_phase
\* (ARCHITECT 0, CRITIC 1, REBUTTAL 2, INTEGRATOR 3); and in every state the
\* turn at index i (from 0) carries the phase at position i mod 4.
C32_TurnCountAndPhaseOrder ==
    Fresh =>
        /\ pc \in {"loop", "agent"} =>
              Len(S.conversation)
                  = 4 * (S.round - 1) + PhasePosition(S.current_phase)
        /\ IsCyclePrefix(S.conversation)

\* the head of the seventh iteration of a fresh run with two rounds
C32_Witness ==
    /\ Fresh /\ pc = "loop" /\ Cfg.max_rounds = 2
    /\ S.round = 2 /\ S.current_phase = "REBUTTAL"
    /\ Len(S.conversation) = 6
    /\ S.conversation[6].phase = "critic"

C33_RoundInRange ==
    (Fresh /\ Cfg.max_rounds >= 1)
        => 1 <= S.round /\ S.round <= Cfg.max_rounds

C33_RoundStep ==
    (SameProcess /\ Fresh /\ Cfg.max_rounds >= 1) => S'.round >= S.round

\* C33: in every state of a run started from a fresh session with
\* max_rounds >= 1 the round is at least 1 and at most max_rounds, and no step
\* of the run decreases it.
C33_RoundBounds == [](C33_RoundInRange) /\ [][C33_RoundStep]_vars

\* a fresh run that went from round 1 to round 2 = max_rounds and ended there
C33_Witness ==
    /\ Fresh /\ Cfg.max_rounds = 2 /\ pc = "exited"
    /\ S.round = 2 /\ S.current_phase = "INTEGRATOR"
    /\ S0.round = 1

\* C35 (as claimed): whenever an agent call is pending, in a fresh run or in a
\* run resumed from a session file, the status of the session is IN_PROGRESS.
C35_InvokedInProgress ==
    pc = "agent" => S.status = "IN_PROGRESS"

\* C36 (as claimed): the doc-impact analysis attached to a session that a run
\* returned as COMPLETED is computed from the session's own task, the text
\* that the agents were given, in fresh and in resumed runs.
C36_AnalysisOfSessionTask ==
    (run # None /\ pc = "exited" /\ exitKind = "returned"
        /\ S.status = "COMPLETED" /\ Cfg.routes)
        => /\ S.doc_impact_analysis # None
           /\ Get(S.doc_impact_analysis).task = S.task
           /\ firstCall # None => Get(firstCall).task = S.task

\* the "last turn of any phase" fallback of _extract_final_plan decides
LastTurnFallbackDecides(s) ==
    /\ LastContent(s.conversation, "integrator") = None
    /\ LastContent(s.conversation, "architect") = None
    /\ s.conversation # <<>>

\* C38: on every session that the engine reaches from a fresh session, in the
\* run that created it and in the runs that resume it, _extract_final_plan of
\* the orchestrator and _get_final_plan of the task extractor select the same
\* text, and the orchestrator's fallback to the last turn of any phase is
\* never the deciding case.
C38_SameFinalPlan ==
    session # None =>
        /\ ExtractFinalPlan(S) = GetFinalPlan(S)
        /\ ~LastTurnFallbackDecides(S)

\* a resumed run in its first round: critic and rebuttal turns follow the
\* architect turn, no integrator turn yet
C38_Witness ==
    /\ Resumed /\ Len(S.conversation) = 3
    /\ S.conversation[3].phase = "rebuttal"
    /\ LastContent(S.conversation, "integrator") = None
    /\ GetFinalPlan(S) = S.conversation[1].content

-----------------------------------------------------------------------------
(* Runs under a fair scheduler *)

\* iterations that _run_loop can still make on session s under max_rounds
IterationsLeft(s, max_rounds) ==
    IF s.round > max_rounds THEN 0
    ELSE 4 * (max_rounds - s.round) + (4 - PhasePosition(s.current_phase))

\* planify TASK with a max_rounds that the run can take to its end within
\* MaxTurns turns
StartFreshBounded(cfg) ==
    /\ IterationsLeft(CreateSession(cfg.task, RepoPath, cfg.context),
                      cfg.max_rounds) <= MaxTurns
    /\ StartFresh(cfg)

\* planify --resume on a file whose session the run can take to its end
\* within MaxTurns turns
StartResumeBounded(cfg) ==
    /\ disk # None
    /\ Len(Session_load(disk).conversation)
          + IterationsLeft(Session_load(disk), cfg.max_rounds) <= MaxTurns
    /\ StartResume(cfg)

\* a step of the running process: the loop itself, the provider's answer or
\* failure, the return of the feedback callback
ProcessStep ==
    /\ \/ LoopExit
       \/ CostAbort
       \/ InvokeAgent
       \/ \E response \in UNION {Responses(r) : r \in {"architect", "critic", "integrator"}} :
             AgentResponds(response)
       \/ \E retryable \in BOOLEAN : AgentFails(retryable)
       \/ \E feedback \in {None} \cup {Some(t) : t \in FeedbackTexts} :
             FeedbackReturns(feedback)
    /\ UNCHANGED <<fnArgs, fnResult>>

NextFair ==
    \/ \E cfg \in FreshConfigs : StartFreshBounded(cfg) /\ UNCHANGED <<fnArgs, fnResult>>
    \/ \E cfg \in ResumeConfigs : StartResumeBounded(cfg) /\ UNCHANGED <<fnArgs, fnResult>>
    \/ ProcessStep
    \/ Interrupt /\ UNCHANGED <<fnArgs, fnResult>>

\* the event loop runs the coroutine whenever it can continue, every provider
\* call returns or fails and every feedback callback returns; starting a
\* process and interrupting one are left to the user
SpecFair == Init /\ [][NextFair]_vars /\ WF_vars(ProcessStep)

Running == pc \in {"loop", "agent", "feedback"}

\* C34: when every provider call eventually returns or fails and every
\* feedback callback eventually returns, every run eventually ends, by
\* returning or by raising; and a run started from a fresh session makes at
\* most 4 * max_rounds agent invocations.
C34_RunsEnd ==
    /\ [](Running => <>(pc = "exited"))
    /\ [](Fresh => invoked <= 4 * Cfg.max_rounds)

\* a fresh run that ended after 4 * max_rounds invocations
C34_Witness ==
    /\ Fresh /\ Cfg.max_rounds = 2 /\ pc = "exited" /\ exitKind = "returned"
    /\ invoked = 8

-----------------------------------------------------------------------------
(* A run that is interrupted, saved and resumed *)

\* planify --resume: the first resume takes the file that the fresh process
\* wrote, every later one the file that an interrupted process saved
StartResumeAfterInterrupt(cfg) ==
    /\ runs = 1 \/ (exitKind = "interrupt" /\ saved)
    /\ StartResume(cfg)

NextInterruptResume ==
    \/ \E cfg \in FreshConfigs : StartFresh(cfg) /\ UNCHANGED <<fnArgs, fnResult>>
    \/ \E cfg \in ResumeConfigs :
          StartResumeAfterInterrupt(cfg) /\ UNCHANGED <<fnArgs, fnResult>>
    \/ ProcessStep
    \/ Interrupt /\ UNCHANGED <<fnArgs, fnResult>>

SpecInterruptResume == Init /\ [][NextInterruptResume]_vars

\* C31 (as claimed): when a run in progress is interrupted during a provider
\* call or a feedback wait, its session (each phase recorded once and in
\* order so far) is saved, and the next process resumes the file and
\* completes, the final conversation is (architect, critic, rebuttal,
\* integrator) once per round.
C31_InterruptResumeExactlyOnce ==
    (/\ Resumed /\ runs >= 3
     /\ S0.status \in {"IN_PROGRESS", "AWAITING_FEEDBACK"}
     /\ IsCyclePrefix(S0.conversation)
     /\ pc = "exited" /\ exitKind = "returned" /\ S.status = "COMPLETED")
        => PhasesOf(S.conversation) = CyclesOf(S.round)

-----------------------------------------------------------------------------
(* Properties of analyze_plan_impact *)

\* The arguments and the result of the call, once it has returned.
ImpactArgs == Get(fnArgs)
Impacts == Get(fnResult).impacts
RoutingTable == ImpactArgs.doc_arch.routing_table

\* The number of keywords of routing_table[k] that occur, case-insensitively,
\* in the task followed by the plan.
ScoreOfRoute(k) ==
    Cardinality({n \in DOMAIN RoutingTable[k].keywords :
        \E w \in DOMAIN (ImpactArgs.task \o ImpactArgs.plan_content) :
            RoutingTable[k].keywords[n] \in
                Substrings(Lower((ImpactArgs.task \o ImpactArgs.plan_content)[w]))})

\* The routes to doc path p that match, and the first of them in table order.
MatchingRoutes(p) ==
    {k \in DOMAIN RoutingTable : RoutingTable[k].doc_path = p /\ ScoreOfRoute(k) > 0}
FirstMatching(p) ==
    CHOOSE k \in MatchingRoutes(p) : \A l \in MatchingRoutes(p) : k <= l

C23_PriorityThresholds ==
    fnResult # None =>
        /\ \A i \in DOMAIN Impacts :
              /\ Impacts[i].priority = "REQUIRED" <=> Impacts[i].match_score >= 4
              /\ Impacts[i].priority = "RECOMMENDED"
                    <=> Impacts[i].match_score \in {2, 3}
              /\ Impacts[i].priority = "OPTIONAL" <=> Impacts[i].match_score = 1
              /\ \E k \in DOMAIN RoutingTable :
                    /\ RoutingTable[k].doc_path = Impacts[i].doc_path
                    /\ RoutingTable[k].area = Impacts[i].area
                    /\ ScoreOfRoute(k) = Impacts[i].match_score
                    /\ ScoreOfRoute(k) > 0
        /\ Len(Impacts) <= Cardinality({k \in DOMAIN RoutingTable : ScoreOfRoute(k) > 0})

C23_Witness ==
    /\ fnResult # None
    /\ \E i, j \in DOMAIN Impacts :
          /\ Impacts[i].match_score = 4 /\ Impacts[i].priority = "REQUIRED"
          /\ Impacts[j].match_score = 3 /\ Impacts[j].priority = "RECOMMENDED"
    /\ \E k \in DOMAIN RoutingTable : ScoreOfRoute(k) = 0

\* C25: the impact list is ordered by priority, REQUIRED before RECOMMENDED
\* before OPTIONAL, and within one priority by score descending; the whole
\* list is in non-increasing score order, and impacts with equal score keep
\* the routing-table order of their routes.
C25_ImpactOrder ==
    fnResult # None =>
        \A i, j \in DOMAIN Impacts :
            i < j =>
                /\ priority_order(Impacts[i].priority)
                      <= priority_order(Impacts[j].priority)
                /\ Impacts[i].priority = Impacts[j].priority
                      => Impacts[i].match_score >= Impacts[j].match_score
                /\ Impacts[i].match_score >= Impacts[j].match_score
                /\ Impacts[i].match_score = Impacts[j].match_score
                      => FirstMatching(Impacts[i].doc_path)
                            < FirstMatching(Impacts[j].doc_path)

C25_Witness ==
    /\ fnResult # None
    /\ Len(Impacts) = 3
    /\ Impacts[1].match_score = Impacts[2].match_score
    /\ Impacts[2].match_score > Impacts[3].match_score
    /\ FirstMatching(Impacts[3].doc_path) < FirstMatching(Impacts[1].doc_path)

\* The plan alone mentions the term, case-insensitively.
PlanMentions(term) ==
    \E w \in DOMAIN ImpactArgs.plan_content :
        term \in Substrings(Lower(ImpactArgs.plan_content[w]))

ApiDocsCheck ==
    /\ PlanMentions("endpoint") \/ PlanMentions("api")
    /\ PlanMentions("route")
    /\ ~PlanMentions("document")
    /\ ~PlanMentions("docs")
UnitTestsCheck ==
    PlanMentions("component") /\ PlanMentions("tsx") /\ ~PlanMentions("test")
EnvExampleCheck ==
    /\ PlanMentions("env")
    /\ PlanMentions("variable") \/ PlanMentions("config")
    /\ ~PlanMentions(".env.example")
MigrationCheck ==
    /\ PlanMentions("model") \/ PlanMentions("schema") \/ PlanMentions("database")
    /\ ~PlanMentions("migration")

\* C26: the warnings are, in the fixed order API-docs, unit-tests,
\* env-example, migration, exactly the checks whose condition holds on the
\* plan text alone; each check fires independently of the others, and the
\* task and the routing table never change which warnings fire.
C26_WarningsFromPlanAlone ==
    fnResult # None =>
        Get(fnResult).warnings =
            (IF ApiDocsCheck THEN <<WarnApi>> ELSE <<>>)
            \o (IF UnitTestsCheck THEN <<WarnTests>> ELSE <<>>)
            \o (IF EnvExampleCheck THEN <<WarnEnv>> ELSE <<>>)
            \o (IF MigrationCheck THEN <<WarnMigration>> ELSE <<>>)

C26_Witness ==
    /\ fnResult # None
    /\ Get(fnResult).warnings = <<WarnApi, WarnTests, WarnEnv, WarnMigration>>
    /\ ImpactArgs.task = <<"docs", "latest", ".env.example", "migration">>
    /\ RoutingTable # <<>>

\* The positions, in the keyword list of routing_table[k], of the keywords that
\* occur in the task followed by the plan; and the j-th of them.
MatchingPositions(k) ==
    {n \in DOMAIN RoutingTable[k].keywords :
        \E w \in DOMAIN (ImpactArgs.task \o ImpactArgs.plan_content) :
            RoutingTable[k].keywords[n] \in
                Substrings(Lower((ImpactArgs.task \o ImpactArgs.plan_content)[w]))}
NthMatching(k, j) ==
    CHOOSE n \in MatchingPositions(k) :
        Cardinality({m \in MatchingPositions(k) : m < n}) = j - 1

\* C39: for every impact, made from the first matching route r of its doc
\* path, match_score is the number of keywords of r that match, however many
\* they are, and matched_keywords is the first min(5, match_score) of them in
\* the order of r's keyword list.
C39_KeywordsShownAndScore ==
    fnResult # None =>
        \A i \in DOMAIN Impacts :
            LET r == FirstMatching(Impacts[i].doc_path)
                total == Cardinality(MatchingPositions(r))
                shown == IF total < 5 THEN total ELSE 5
            IN  /\ Impacts[i].match_score = total
                /\ Len(Impacts[i].matched_keywords) = shown
                /\ \A j \in 1..shown :
                      Impacts[i].matched_keywords[j]
                          = RoutingTable[r].keywords[NthMatching(r, j)]

\* an impact with six matching keywords, five of them shown, whose route has
\* a keyword before the last shown one that does not match
C39_Witness ==
    /\ fnResult # None
    /\ \E i \in DOMAIN Impacts :
          /\ Impacts[i].match_score = 6
          /\ Len(Impacts[i].matched_keywords) = 5
          /\ NthMatching(FirstMatching(Impacts[i].doc_path), 5) > 5

-----------------------------------------------------------------------------
(* Properties of DocRoute.matches *)

\* The distinct keywords of the route, and those of them that occur in the
\* text when both are compared in lower case.
DistinctKeywords == {Get(fnArgs).route.keywords[k] : k \in DOMAIN Get(fnArgs).route.keywords}
OccurringKeywords ==
    {kw \in DistinctKeywords :
        \E w \in DOMAIN Get(fnArgs).text :
            Lower(kw) \in Substrings(Lower(Get(fnArgs).text[w]))}

-----------------------------------------------------------------------------
(* Properties of parse_routing_table *)

\* Table mode is open at line i: some header line precedes it and every line
\* between that header and line i starts with '|'.
TableOpenAt(i) ==
    \E h \in 1..(i - 1) :
        /\ IsHeader(Get(fnArgs)[h])
        /\ \A k \in (h + 1)..(i - 1) : Get(fnArgs)[k].pipe

\* Line i is a pipe-delimited row that is neither header nor separator, whose
\* first cell holds no '---' and whose second cell holds a doc path.
KeptRow(i) ==
    /\ Get(fnArgs)[i].pipe
    /\ ~IsHeader(Get(fnArgs)[i])
    /\ ~IsSeparator(Get(fnArgs)[i])
    /\ RowMatches(Get(fnArgs)[i])
    /\ ~In("---", RowArea(Get(fnArgs)[i]))
    /\ RowDocPath(Get(fnArgs)[i]) # ""

RouteLines == {i \in DOMAIN Get(fnArgs) : TableOpenAt(i) /\ KeptRow(i)}
NthRouteLine(n) ==
    CHOOSE i \in RouteLines : Cardinality({j \in RouteLines : j <= i}) = n

-----------------------------------------------------------------------------
(* Properties of parse_conventions *)

ConvLines == Get(fnArgs)

\* The category whose section is open when line i of the lines is read: the
\* last line before i that starts with '#' is a rules, guidelines,
\* conventions or patterns heading with a name.  None when no section is open.
OpenCategoryIn(lines, i) ==
    LET hs == {h \in 1..(i - 1) : StartsWithHash(lines[h])}
    IN IF hs = {} THEN None
       ELSE LET h == CHOOSE x \in hs : \A y \in hs : y <= x
            IN IF HeaderMatch(lines[h]) /\ SectionName(lines[h]) # <<>>
               THEN Some(SectionName(lines[h]))
               ELSE None

\* Line i of the lines is a bullet or numbered line whose content is longer
\* than 10 characters.
LongItemIn(lines, i) ==
    /\ i <= Len(lines)
    /\ RuleMatch(lines[i])
    /\ RuleLen(RuleOf(lines[i])) > 10

OpenCategoryAt(i) == OpenCategoryIn(ConvLines, i)
LongItem(i) == LongItemIn(ConvLines, i)

\* Line i is a heading, or i is the end of the file.
ClosesAt(i) == i > Len(ConvLines) \/ StartsWithHash(ConvLines[i])

C28_Step ==
    LET s == Get(fnResult).st
        t == Get(fnResult').st
        i == Get(fnResult).i
        open == OpenCategoryAt(i)
    IN /\ Truthy(s.current_section) <=> open # None
       /\ open # None => s.current_section = open
       /\ t.current_rules # s.current_rules /\ t.current_rules # <<>>
             => /\ open # None
                /\ LongItem(i)
                /\ t.current_rules = Append(s.current_rules, RuleOf(ConvLines[i]))
                /\ t.current_section = open
       /\ open # None /\ LongItem(i)
             => t.current_rules = Append(s.current_rules, RuleOf(ConvLines[i]))
       /\ ClosesAt(i) /\ open # None /\ s.current_rules # <<>>
             => /\ Get(open) \in DOMAIN t.conventions
                /\ t.conventions[Get(open)] = s.current_rules
       /\ ClosesAt(i) /\ i <= Len(ConvLines)
             => /\ t.current_rules = <<>>
                /\ Truthy(t.current_section) <=> OpenCategoryAt(i + 1) # None
       /\ t.conventions # s.conventions
             => /\ ClosesAt(i) /\ open # None /\ s.current_rules # <<>>
                /\ t.conventions = SetItem(s.conventions, Get(open), s.current_rules)
       /\ open = None /\ ~ClosesAt(i)
             => /\ t.conventions = s.conventions
                /\ t.current_rules = <<>>
                /\ ~Truthy(t.current_section)

\* C28: a bullet or numbered line is appended to a category only while a
\* section opened by a rules, guidelines, conventions or patterns heading is
\* open, and only when its content is longer than 10 characters; any other
\* heading, or the end of the file, closes the section and commits its
\* rules; lines under a heading that does not open a section are attributed
\* to no category.
C28_SectionRules == [][C28_Step]_vars

C28_Witness ==
    /\ Get(fnResult).returned
    /\ Get(fnResult).st.conventions # <<>>
    /\ \E i, j \in DOMAIN ConvLines :
          /\ LongItem(i) /\ OpenCategoryAt(i) = None
          /\ LongItem(j) /\ OpenCategoryAt(j) # None

-----------------------------------------------------------------------------
(* Properties of parse_doc_architecture *)

\* The documentation files of the context, in file order.
ClaudeFiles == SelectSeq(Get(fnArgs), LAMBDA f : IsClaudeMd(f.path))

RECURSIVE ConcatRoutes(_)
ConcatRoutes(files) ==
    IF files = <<>> THEN <<>>
    ELSE ParseRoutingTable(Head(files).content) \o ConcatRoutes(Tail(files))

RECURSIVE ConcatRules(_, _)
ConcatRules(files, category) ==
    IF files = <<>> THEN <<>>
    ELSE (IF category \in DOMAIN ParseConventions(Head(files).content)
          THEN ParseConventions(Head(files).content)[category] ELSE <<>>)
         \o ConcatRules(Tail(files), category)

\* The merge proper: the routing table is the concatenation of the files'
\* routing tables, and the rules of a category are the concatenation of the
\* rule lists the files return for it.
MergeConcatenates ==
    fnResult # None =>
        /\ Get(fnResult).routing_table = ConcatRoutes(ClaudeFiles)
        /\ DOMAIN Get(fnResult).conventions =
              UNION {DOMAIN ParseConventions(ClaudeFiles[f].content) :
                        f \in DOMAIN ClaudeFiles}
        /\ \A category \in DOMAIN Get(fnResult).conventions :
              Get(fnResult).conventions[category] = ConcatRules(ClaudeFiles, category)

\* Every rule that parse_conventions committed while reading a documentation
\* file, a long list item of an open section, is among the rules of its
\* category in the result.
NoCommittedRuleLost ==
    fnResult # None =>
        \A f \in DOMAIN ClaudeFiles :
            \A i \in DOMAIN ClaudeFiles[f].content :
                (/\ LongItemIn(ClaudeFiles[f].content, i)
                 /\ OpenCategoryIn(ClaudeFiles[f].content, i) # None)
                => /\ Get(OpenCategoryIn(ClaudeFiles[f].content, i))
                         \in DOMAIN Get(fnResult).conventions
                   /\ \E n \in DOMAIN Get(fnResult).conventions[
                                   Get(OpenCategoryIn(ClaudeFiles[f].content, i))] :
                         Get(fnResult).conventions[
                             Get(OpenCategoryIn(ClaudeFiles[f].content, i))][n]
                            = RuleOf(ClaudeFiles[f].content[i])

\* C29 (as claimed): the results of all documentation files are merged in
\* file order, the routing table being the concatenation of the files'
\* routing tables and the rules of a category the concatenation of the
\* files' rule lists, so that no route and no committed rule of any file is
\* lost.
C29_MergeLosesNothing == MergeConcatenates /\ NoCommittedRuleLost

-----------------------------------------------------------------------------
(* Properties of ContextLoader *)

LoaderContext == Get(fnResult).context
LoaderLimit == Get(fnArgs).loader

RECURSIVE SumTokens(_)
SumTokens(files) ==
    IF files = <<>> THEN 0 ELSE Head(files).tokens + SumTokens(Tail(files))

\* The path the step considers.
ConsideredPath == Get(fnResult').considered[Len(Get(fnResult').considered)]

LoaderTotals ==
    /\ LoaderContext.total_tokens <= LoaderLimit.max_tokens
    /\ LoaderContext.total_tokens = SumTokens(LoaderContext.files)
    /\ \A f \in DOMAIN LoaderContext.files :
          LoaderContext.files[f].tokens <= LoaderLimit.max_file_tokens
    /\ \A f, g \in DOMAIN LoaderContext.files :
          LoaderContext.files[f].path = LoaderContext.files[g].path => f = g

\* The step leaves the loaded files alone and records the considered path
\* as skipped.
SkippedByStep ==
    /\ Get(fnResult').context.files = LoaderContext.files
    /\ Get(fnResult').context.total_tokens = LoaderContext.total_tokens
    /\ Len(Get(fnResult').context.files_skipped) = Len(LoaderContext.files_skipped) + 1
    /\ Get(fnResult').context.files_skipped[Len(LoaderContext.files_skipped) + 1].path
          = ConsideredPath

-----------------------------------------------------------------------------
(* Properties of Orchestrator.run on an existing session *)

\* C37: when run is given an existing session, the session it enters the
\* loop with has files_loaded and tokens_used replaced by the summary of the
\* context loaded from the repo_path argument, and every other field (id,
\* task, repo_path, status, current_phase, round, conversation,
\* total_cost_usd, created_at, ...) as it was, whatever the task and repo_path
\* arguments are.
C37_ResumeFrame ==
    fnResult # None =>
        LET given == Get(fnArgs).session
            entered == Get(fnResult)
            context == LoadContext(Get(fnArgs).repo_path)
        IN  /\ entered.files_loaded = context.files
            /\ entered.tokens_used = context.total_tokens
            /\ DOMAIN entered = DOMAIN given
            /\ \A field \in DOMAIN given \ {"files_loaded", "tokens_used"} :
                  entered[field] = given[field]

\* an aborted session resumed with another task on another repository
C37_Witness ==
    /\ fnResult # None
    /\ Get(fnArgs).task = "other" /\ Get(fnArgs).repo_path = "/elsewhere"
    /\ Get(fnArgs).session.status = "ABORTED"
    /\ Get(fnResult).task = "T" /\ Get(fnResult).repo_path = RepoPath
    /\ Get(fnResult).status = "ABORTED"
    /\ Get(fnResult).files_loaded = <<"CLAUDE.md", "main.py">>
    /\ Get(fnArgs).session.files_loaded = <<"README.md">>

----------------------------------------------------------------------------
(* Properties of _extract_final_plan *)

\* positions of the turns of a phase
TurnsOfPhase(conversation, phaseValue) ==
    {i \in 1..Len(conversation) : conversation[i].phase = phaseValue}

\* the largest element of a non-empty set of numbers
Last(X) == CHOOSE i \in X : \A j \in X : j <= i

\* C19: _extract_final_plan returns the content of the last integrator turn;
\* without an integrator turn, of the last architect turn; without either, of
\* the last turn; for an empty conversation, the empty text.
C19_FinalPlanChoice ==
    fnResult # None =>
        LET conv == Get(fnArgs).conversation
            I == TurnsOfPhase(conv, "integrator")
            A == TurnsOfPhase(conv, "architect")
        IN  Get(fnResult) =
              IF I # {} THEN conv[Last(I)].content
              ELSE IF A # {} THEN conv[Last(A)].content
              ELSE IF Len(conv) > 0 THEN conv[Len(conv)].content
              ELSE ""

\* an integrator turn followed by an architect turn and a critic turn with
\* other content
C19_Witness ==
    /\ fnResult # None
    /\ Len(Get(fnArgs).conversation) = 3
    /\ Get(fnArgs).conversation[1].phase = "integrator"
    /\ Get(fnArgs).conversation[2].phase = "architect"
    /\ Get(fnArgs).conversation[3].phase = "critic"
    /\ Get(fnArgs).conversation[1].content = "p1"
    /\ Get(fnArgs).conversation[2].content = "p2"
    /\ Get(fnResult) = "p1"

----------------------------------------------------------------------------
(* Properties of planify --resume FILE *)

\* the file is missing, or lacks a key that a session or a turn must have, or
\* carries a status or phase tag that is no value of the enum
MalformedFile(file) ==
    \/ file = None
    \/ {"id", "task", "repo_path", "status", "current_phase", "round",
         "conversation", "total_cost_usd", "files_loaded", "tokens_used",
         "created_at", "updated_at"} \ DOMAIN Get(file) # {}
    \/ Get(file).status \notin
          {"in_progress", "awaiting_feedback", "completed", "aborted"}
    \/ Get(file).current_phase \notin
          {"architect", "critic", "rebuttal", "integrator"}
    \/ \E i \in 1..Len(Get(file).conversation) :
          {"phase", "model", "content", "input_tokens", "output_tokens",
           "cost_usd"} \ DOMAIN Get(file).conversation[i] # {}

\* C20: after planify --resume on a missing or malformed file the process has
\* ended with the load failure: it holds no session object, has invoked no
\* agent, has nothing pending and has written no session file.
C20_LoadFailsBeforeEngine ==
    (fnResult # None /\ MalformedFile(fnArgs))
        => /\ pc = "exited" /\ exitKind = "load_failed"
           /\ Get(fnResult) # None
           /\ session = None /\ session0 = None /\ ~cliSession
           /\ invoked = 0 /\ firstCall = None /\ pending = None
           /\ disk = None /\ ~saved

\* a file whose status tag is no value of SessionStatus was refused
C20_Witness ==
    /\ fnResult # None /\ fnArgs # None
    /\ "status" \in DOMAIN Get(fnArgs)
    /\ Get(fnArgs).status = "done"
    /\ Get(fnResult) = Some("ValueError")
    /\ pc = "exited"

----------------------------------------------------------------------------
(* Properties of Session.save / Session.load *)

\* C9: Session.load of the file written by save is equal to the saved
\* session in every field: enum members, the turn list in order with
\* each turn's human_feedback, and a null or non-null doc_impact_analysis.
C9_RoundTrip ==
    fnResult # None => Get(fnResult) = Get(fnArgs)

C9_Witness ==
    /\ fnResult # None
    /\ Get(fnArgs).status = "AWAITING_FEEDBACK"
    /\ Get(fnArgs).current_phase = "REBUTTAL"
    /\ Get(fnArgs).doc_impact_analysis = None
    /\ Len(Get(fnArgs).conversation) = 2
    /\ Get(fnArgs).conversation[1].human_feedback # None
    /\ Get(fnArgs).conversation[2].human_feedback = None
    /\ Get(fnArgs).conversation[1].phase # Get(fnArgs).conversation[2].phase
    /\ Get(fnResult).conversation[1].human_feedback # None

----------------------------------------------------------------------------
(* Properties of _get_next_phase *)

\* C10: _get_next_phase returns CRITIC for ARCHITECT, REBUTTAL for CRITIC,
\* INTEGRATOR for REBUTTAL, ARCHITECT for INTEGRATOR when round < max_rounds and
\* no phase for INTEGRATOR when round >= max_rounds, for every round and max_rounds.
C10_TransitionTable ==
    fnResult # None =>
        LET a == Get(fnArgs)
            r == Get(fnResult)
        IN  /\ a.current = "ARCHITECT" => r = Some("CRITIC")
            /\ a.current = "CRITIC" => r = Some("REBUTTAL")
            /\ a.current = "REBUTTAL" => r = Some("INTEGRATOR")
            /\ (a.current = "INTEGRATOR" /\ a.current_round < a.max_rounds)
                  => r = Some("ARCHITECT")
            /\ (a.current = "INTEGRATOR" /\ a.current_round >= a.max_rounds)
                  => r = None

C10_Witness ==
    /\ fnResult # None
    /\ Get(fnArgs).current = "INTEGRATOR"
    /\ Get(fnArgs).current_round = Get(fnArgs).max_rounds
    /\ Get(fnArgs).max_rounds >= 1
    /\ Get(fnResult) = None

====
